---- MODULE Spec2Model ----
(***************************************************************************)
(* Model of the proxy search task (internal/proxy/task_search.go):         *)
(* PreExecute (nq check, consistency timestamp resolution), Execute        *)
(* (scatter/gather over the shard leaders through searchShard) and         *)
(* PostExecute (collection, reduction pipeline, fillResult).               *)
(***************************************************************************)
EXTENDS Integers, Sequences, FiniteSets, TLC

(* ------------------------------ bounds --------------------------------- *)
\* timestamps range over 0..MaxTs
MaxTs == 2
\* number of shards (DML channels) of the collection
NumShards == 2
\* largest number of sub-requests of an advanced search
MaxLegs == 2
\* quota on nq; nq values range over 0..NQLimit+1
NQLimit == 2
\* largest top-k / rank limit of a request
MaxTopk == 2

Ts == 0..MaxTs
MaxNq == NQLimit + 1
Shards == 1..NumShards
\* the timestamp the scheduler stamped on the task (t.BeginTs())
BeginTs == MaxTs - 1

Levels == {"Strong", "Session", "Bounded", "Eventually", "Customized"}

Max(a, b) == IF a >= b THEN a ELSE b

(* ------------------------------ values --------------------------------- *)
NoErr == [kind |-> "nil", cause |-> "nil"]
Err(k) == [kind |-> k, cause |-> "nil"]
\* errors.Wrap / errors.Wrapf / fmt.Errorf("... %w"): keeps the cause
Wrap(k, e) == [kind |-> k, cause |-> e.kind]

NilResult == [isNil |-> TRUE, Topks |-> <<>>]
NilBuf == [isNil |-> TRUE, items |-> {}]
\* a placeholder group: the number of its values, or one that
\* proto.Unmarshal rejects
Placeholders(k) == [valid |-> TRUE, values |-> k]
Unparsable == [valid |-> FALSE, values |-> 0]
\* an incoming last bound of an iterator page (*float32), nil or a score
NoBound == [isNil |-> TRUE, value |-> 0]
Bound(v) == [isNil |-> FALSE, value |-> v]
\* the iterator-v2 info of a plan (queryInfo.GetSearchIteratorV2Info())
NoIterInfo == [isNil |-> TRUE, LastBound |-> NoBound]
IterInfo(b) == [isNil |-> FALSE, LastBound |-> b]

(* ---------------------- helpers outside task_search.go ----------------- *)
\* tsoutil.AddPhysicalDurationOnTs(tMax, -gracefulTime)
subGraceful(tMax) == IF tMax > 0 THEN tMax - 1 ELSE 0

parseGuaranteeTsFromConsistency(ts, tMax, level) ==
    CASE level = "Strong" -> tMax
      [] level = "Bounded" -> subGraceful(tMax)
      [] level = "Eventually" -> 1
      [] OTHER -> ts

\* legacy encoding: 0 means strong, 2 means bounded, anything else is a timestamp
parseGuaranteeTs(ts, tMax) ==
    CASE ts = 0 -> tMax
      [] ts = 2 -> subGraceful(tMax)
      [] OTHER -> ts

\* nq of a request or of a leg: the declared Nq, or the number of
\* placeholder values when Nq is not declared
getNq(req) ==
    IF req.Nq # 0 THEN [nq |-> req.Nq, err |-> NoErr]
    ELSE IF ~req.PlaceholderGroup.valid THEN [nq |-> 0, err |-> Err("ErrUnmarshal")]
    ELSE [nq |-> req.PlaceholderGroup.values, err |-> NoErr]

getNqFromSubSearch(leg) ==
    IF leg.Nq # 0 THEN [nq |-> leg.Nq, err |-> NoErr]
    ELSE IF ~leg.PlaceholderGroup.valid THEN [nq |-> 0, err |-> Err("ErrUnmarshal")]
    ELSE [nq |-> leg.PlaceholderGroup.values, err |-> NoErr]

validateNQLimit(nq) ==
    IF nq <= 0 \/ nq > NQLimit THEN Err("ErrNqOutOfRange") ELSE NoErr

\* what the filter expression of a plan says about the partition key:
\* no predicate on it, an equality on it, or a range on it
Filters == {"none", "pkEq", "pkRange"}

\* exprutil.ParseKeys(expr, PartitionKey): the key values the filter pins
ParseKeys(filter) == IF filter = "pkEq" THEN {"key"} ELSE {}

\* exprutil.ValidatePartitionKeyIsolation: the filter must hold one equality
\* on the partition key
ValidatePartitionKeyIsolation(filter) ==
    IF filter = "pkEq" THEN NoErr ELSE Err("ErrPartitionKeyIsolation")

\* assignPartitionKeys and getPartitionIDs: the partitions of a set of names
\* or of hashed key values
getPartitionIDs(names) == {[partition |-> n] : n \in names}

(* ------------------------------ checkNq -------------------------------- *)
\* the loop of checkNq over the legs, from leg i on, with the running nq;
\* subs carries the legs with req.Nq = subNq already written
RECURSIVE checkNqLoop(_, _, _)
checkNqLoop(subs, i, nq) ==
    IF i > Len(subs) THEN [nq |-> nq, err |-> NoErr, subs |-> subs]
    ELSE LET r == getNqFromSubSearch(subs[i])
             written == [subs EXCEPT ![i].Nq = r.nq]
         IN  IF r.err # NoErr THEN [nq |-> 0, err |-> r.err, subs |-> subs]
             ELSE IF nq = 0 THEN checkNqLoop(written, i + 1, r.nq)
             ELSE IF r.nq # nq
                  THEN [nq |-> 0, err |-> Err("ErrParameterInvalid"), subs |-> written]
             ELSE checkNqLoop(written, i + 1, nq)

\* checkNq: returns the nq, the error and the user request as it leaves it
checkNq(isAdvanced, req) ==
    LET r == IF isAdvanced
             THEN LET l == checkNqLoop(req.SubReqs, 1, req.Nq)
                  IN  IF l.err # NoErr
                      THEN [nq |-> 0, err |-> l.err, req |-> [req EXCEPT !.SubReqs = l.subs]]
                      ELSE [nq |-> l.nq, err |-> NoErr,
                            req |-> [req EXCEPT !.SubReqs = l.subs, !.Nq = l.nq]]
             ELSE LET g == getNq(req)
                  IN  IF g.err # NoErr
                      THEN [nq |-> 0, err |-> g.err, req |-> req]
                      ELSE [nq |-> g.nq, err |-> NoErr, req |-> [req EXCEPT !.Nq = g.nq]]
    IN  IF r.err # NoErr THEN r
        ELSE IF validateNQLimit(r.nq) # NoErr
             THEN [nq |-> 0, err |-> Wrap("ErrNqInvalid", validateNQLimit(r.nq)), req |-> r.req]
        ELSE r

(* ----------------- consistency resolution of PreExecute ---------------- *)
\* the guarantee timestamp and the level resolved from the request
resolveGuaranteeTs(req, info, beginTs) ==
    IF req.UseDefaultConsistency
    THEN [level |-> info.consistencyLevel,
          ts |-> parseGuaranteeTsFromConsistency(req.GuaranteeTimestamp, beginTs,
                                                 info.consistencyLevel)]
    ELSE [level |-> req.ConsistencyLevel,
          ts |-> IF req.ConsistencyLevel = "Strong" /\ req.GuaranteeTimestamp > 0
                 THEN parseGuaranteeTs(req.GuaranteeTimestamp, beginTs)
                 ELSE parseGuaranteeTsFromConsistency(req.GuaranteeTimestamp, beginTs,
                                                      req.ConsistencyLevel)]

(* ----------------------- CanSkipAllocTimestamp ------------------------- *)
\* the scheduler has not asked yet
NotAsked == [isNil |-> TRUE, skip |-> FALSE, resolved |-> FALSE, consistencyLevel |-> "Strong"]

\* a failed lookup of the collection is taken for a level that is not Strong
canSkipAllocTimestamp_lookupErrorSkips(req, info) ==
    IF ~req.UseDefaultConsistency
    THEN IF req.ConsistencyLevel = "Strong" /\ req.GuaranteeTimestamp > 0
         THEN [isNil |-> FALSE, skip |-> TRUE, resolved |-> FALSE,
               consistencyLevel |-> "Strong"]
         ELSE [isNil |-> FALSE, skip |-> req.ConsistencyLevel # "Strong",
               resolved |-> TRUE, consistencyLevel |-> req.ConsistencyLevel]
    ELSE IF info.infoErrOnEnqueue
         THEN [isNil |-> FALSE, skip |-> TRUE, resolved |-> FALSE,
               consistencyLevel |-> "Strong"]
         ELSE [isNil |-> FALSE, skip |-> info.consistencyLevel # "Strong",
               resolved |-> TRUE, consistencyLevel |-> info.consistencyLevel]

\* CanSkipAllocTimestamp: what it returns (skip), whether it came to resolve
\* a consistency level, and the value of its consistencyLevel variable
canSkipAllocTimestamp(req, info) ==
    IF ~req.UseDefaultConsistency
    THEN IF req.ConsistencyLevel = "Strong" /\ req.GuaranteeTimestamp > 0
         THEN [isNil |-> FALSE, skip |-> TRUE, resolved |-> FALSE,
               consistencyLevel |-> "Strong"]
         ELSE [isNil |-> FALSE, skip |-> req.ConsistencyLevel # "Strong",
               resolved |-> TRUE, consistencyLevel |-> req.ConsistencyLevel]
    ELSE IF info.infoErrOnEnqueue
         THEN [isNil |-> FALSE, skip |-> FALSE, resolved |-> FALSE,
               consistencyLevel |-> "Strong"]
         ELSE [isNil |-> FALSE, skip |-> info.consistencyLevel # "Strong",
               resolved |-> TRUE, consistencyLevel |-> info.consistencyLevel]

(* ---------------- partition-key checks of PreExecute ------------------- *)
\* explicit partition names are accepted in partition-key mode
checkPartitionNames_allowNames(partitionKeyMode, mustUse, names) ==
    IF mustUse /\ ~partitionKeyMode THEN Err("ErrMustUsePartitionKey") ELSE NoErr

\* PreExecute's two checks on partition-key mode
checkPartitionNames(partitionKeyMode, mustUse, names) ==
    IF partitionKeyMode /\ names # {} THEN Err("ErrPartitionNamesInKeyMode")
    ELSE IF mustUse /\ ~partitionKeyMode THEN Err("ErrMustUsePartitionKey")
    ELSE NoErr

\* outside partition-key mode the named partitions become the task's IDs
resolvePartitionNames(partitionKeyMode, names, old) ==
    IF ~partitionKeyMode /\ names # {} THEN getPartitionIDs(names) ELSE old

\* the query info tryGeneratePlan gives for a request or a leg
NoQueryInfo ==
    [Hints |-> "", MaterializedViewInvolved |-> FALSE, SearchIteratorV2Info |-> NoIterInfo]

\* setQueryInfoIfMvEnable; a failed collection-info lookup returns err of
\* the earlier schema lookup, which is nil there
setQueryInfoIfMvEnable(queryInfo, enableMv, info, filter) ==
    IF ~enableMv THEN [err |-> NoErr, queryInfo |-> queryInfo]
    ELSE IF info.pkSchemaErr
         THEN [err |-> Err("ErrPartitionKeyFieldSchema"), queryInfo |-> queryInfo]
    ELSE IF ~info.pkSupportsMv
         THEN [err |-> Err("ErrMvUnsupportedType"), queryInfo |-> queryInfo]
    ELSE IF info.infoErrInMv THEN [err |-> NoErr, queryInfo |-> queryInfo]
    ELSE IF info.partitionKeyIsolation
         THEN IF ValidatePartitionKeyIsolation(filter) # NoErr
              THEN [err |-> ValidatePartitionKeyIsolation(filter), queryInfo |-> queryInfo]
              ELSE [err |-> NoErr,
                    queryInfo |-> [queryInfo EXCEPT !.Hints = "disable",
                                                    !.MaterializedViewInvolved = TRUE]]
    ELSE [err |-> NoErr, queryInfo |-> [queryInfo EXCEPT !.MaterializedViewInvolved = TRUE]]

\* tryParsePartitionIDsFromPlan: the partitions the filter's keys hash to
tryParsePartitionIDsFromPlan(filter) ==
    LET partitionKeys == ParseKeys(filter)
    IN  [err |-> NoErr, ids |-> getPartitionIDs(partitionKeys)]

\* the partition-key part of initSearchRequest and of each leg of
\* initAdvancedSearchRequest: isolation first, then the partitions
partitionKeyStep(partitionKeyMode, enableMv, info, filter, old) ==
    IF ~partitionKeyMode
    THEN [err |-> NoErr, queryInfo |-> NoQueryInfo, ids |-> old]
    ELSE LET mv == setQueryInfoIfMvEnable(NoQueryInfo, enableMv, info, filter)
             ids == tryParsePartitionIDsFromPlan(filter)
         IN  IF mv.err # NoErr THEN [err |-> mv.err, queryInfo |-> mv.queryInfo, ids |-> old]
             ELSE IF ids.err # NoErr
                  THEN [err |-> ids.err, queryInfo |-> mv.queryInfo, ids |-> old]
             ELSE [err |-> NoErr, queryInfo |-> mv.queryInfo,
                   ids |-> IF ids.ids # {} THEN ids.ids ELSE old]

\* the partition-key step over the legs from leg i on; acc gathers the query
\* infos and partitionIDsSet
RECURSIVE legsPartitionKeyStep(_, _, _, _, _, _)
legsPartitionKeyStep(legs, i, partitionKeyMode, enableMv, info, acc) ==
    IF i > Len(legs) THEN acc
    ELSE LET st == partitionKeyStep(partitionKeyMode, enableMv, info, legs[i].Filter, {})
         IN  IF st.err # NoErr THEN [acc EXCEPT !.err = st.err]
             ELSE legsPartitionKeyStep(legs, i + 1, partitionKeyMode, enableMv, info,
                      [acc EXCEPT !.queryInfos = Append(@, st.queryInfo),
                                  !.ids = @ \cup st.ids])

\* needRequery of an advanced search is computed as for a plain one
needRequeryOf_vectorOnly(isAdvanced, outputFields, functionInputs) ==
    "vector" \in outputFields

\* needRequery: a plain search requeries for vector output fields only, an
\* advanced one for any output field or input field of the fusion function
needRequeryOf(isAdvanced, outputFields, functionInputs) ==
    IF isAdvanced THEN outputFields # {} \/ functionInputs # {}
    ELSE "vector" \in outputFields

\* the width of a Timestamp (an unsigned integer), scaled down
TimestampBits == 3

\* tsoutil.PhysicalTime: the time of a timestamp; the timestamps of the model
\* have no logical part and time is counted in their unit
PhysicalTime(ts) == ts

\* tsoutil.ComposeTSByTime(physical, 0): the time as an unsigned timestamp; a
\* time before the epoch wraps around
ComposeTSByTime(physical) == physical % (2 ^ TimestampBits)

\* the cutoff is stored but not compared with the begin timestamp
collectionTtlCutoff_unchecked(collectionTTL, ts) ==
    IF collectionTTL # 0
    THEN [computed |-> TRUE, CollectionTtlTimestamps |->
              ComposeTSByTime(PhysicalTime(ts) - collectionTTL), err |-> NoErr]
    ELSE [computed |-> FALSE, CollectionTtlTimestamps |-> 0, err |-> NoErr]

\* the expiry cutoff of a collection with a TTL, and the overflow check
collectionTtlCutoff(collectionTTL, ts) ==
    IF collectionTTL # 0
    THEN LET cutoff == ComposeTSByTime(PhysicalTime(ts) - collectionTTL)
         IN  [computed |-> TRUE, CollectionTtlTimestamps |-> cutoff,
              err |-> IF cutoff > ts THEN Err("ErrTtlTimestampOverflow") ELSE NoErr]
    ELSE [computed |-> FALSE, CollectionTtlTimestamps |-> 0, err |-> NoErr]

raiseToUpdateTimestamp_skip(guaranteeTs, updateTimestamp) == guaranteeTs

\* use the schema update timestamp if it is greater
raiseToUpdateTimestamp(guaranteeTs, updateTimestamp) ==
    IF updateTimestamp > guaranteeTs THEN updateTimestamp ELSE guaranteeTs

\* only the guarantee timestamp is pinned
iteratorPin_guaranteeOnly(sr, isIter, req) ==
    IF isIter /\ req.GuaranteeTimestamp > 0
    THEN [sr EXCEPT !.GuaranteeTimestamp = req.GuaranteeTimestamp]
    ELSE sr

\* an iterator page with a caller-supplied timestamp pins both timestamps
iteratorPin(sr, isIter, req) ==
    IF isIter /\ req.GuaranteeTimestamp > 0
    THEN [sr EXCEPT !.MvccTimestamp = req.GuaranteeTimestamp,
                    !.GuaranteeTimestamp = req.GuaranteeTimestamp]
    ELSE sr


\* getOutputFieldIDs: the fields of the schema the output fields name
getOutputFieldIDs(outputFields) == {outputFields[i] : i \in DOMAIN outputFields}

\* a serialized plan, by the output fields it asks the shards for
NilPlan == [isNil |-> TRUE, OutputFieldIds |-> {}]
Plan(outputFieldIds) == [isNil |-> FALSE, OutputFieldIds |-> outputFieldIds]

\* the requested fields stay in the plan when a requery is needed
planOutputFieldIds_keepRequested(requery, outputFieldsId, functionInputs) ==
    outputFieldsId \cup functionInputs \cup {"primary"}

\* plan.OutputFieldIds of a plain search: with a requery the input fields of
\* the function score only, else the output fields, those input fields and
\* the primary key
planOutputFieldIds(requery, outputFieldsId, functionInputs) ==
    IF requery THEN functionInputs
    ELSE outputFieldsId \cup functionInputs \cup {"primary"}

\* initSearchRequest: what the plan of a plain search gives the task
\* (queryInfo.Topk, offset and the iterator flag come from tryGeneratePlan)
initSearchRequest(sr, req) ==
    [sr |-> [sr EXCEPT !.Offset = req.SearchParams.offset,
                       !.Topk = req.SearchParams.topk,
                       !.SerializedExprPlan =
                           Plan(planOutputFieldIds(
                                    needRequeryOf(FALSE, getOutputFieldIDs(req.OutputFields),
                                                  req.FunctionInputs),
                                    sr.OutputFieldsId, req.FunctionInputs))],
     isIterator |-> req.SearchParams.iterator]

\* initAdvancedSearchRequest: one internal sub-request per leg, whose plan
\* names no output field; neither Topk nor Offset of the task's request nor
\* the iterator flag is assigned
initAdvancedSearchRequest(sr, req, isIter) ==
    [sr |-> [sr EXCEPT !.SubReqs = [i \in 1..Len(req.SubReqs) |->
                                      [Nq |-> req.SubReqs[i].Nq,
                                       SerializedExprPlan |-> Plan({})]]],
     isIterator |-> isIter]

(* ------------------------------ searchShard ---------------------------- *)
Responses == {"RpcError", "NotShardLeader", "UnexpectedError", "Success"}

searchShardRequest_noClone(shared, nodeID, channel) ==
    [shared |-> [shared EXCEPT !.TargetID = nodeID],
     req |-> [Req |-> [shared EXCEPT !.TargetID = nodeID], DmlChannels |-> <<channel>>]]

\* the request searchShard sends for a channel: a clone of the task's
\* request with the target node set; shared is the task's own request after it
searchShardRequest(shared, nodeID, channel) ==
    [shared |-> shared,
     req |-> [Req |-> [shared EXCEPT !.TargetID = nodeID], DmlChannels |-> <<channel>>]]

\* the four ways searchShard ends: RPC error, stale leader, other failure
\* status, success
searchShardOutcome(resp, bufIsNil) ==
    CASE resp = "RpcError" ->
           [err |-> Err("ErrRpc"), deprecate |-> 1, insert |-> FALSE, cost |-> FALSE]
      [] resp = "NotShardLeader" ->
           [err |-> Err("errInvalidShardLeaders"), deprecate |-> 1, insert |-> FALSE,
            cost |-> FALSE]
      [] resp = "UnexpectedError" ->
           [err |-> Wrap("ErrSearchOnQueryNode", Err("ErrStatus")), deprecate |-> 0,
            insert |-> FALSE, cost |-> FALSE]
      [] OTHER ->
           [err |-> NoErr, deprecate |-> 0, insert |-> ~bufIsNil, cost |-> TRUE]

\* a stale leader does not invalidate the routing cache
searchShardOnResponse_staleKeepsCache(resp, bufIsNil) ==
    IF resp = "NotShardLeader"
    THEN [searchShardOutcome(resp, bufIsNil) EXCEPT !.deprecate = 0]
    ELSE searchShardOutcome(resp, bufIsNil)

\* an RPC error is logged and dropped
searchShardOnResponse_dropRpcError(resp, bufIsNil) ==
    IF resp = "RpcError"
    THEN [searchShardOutcome(resp, bufIsNil) EXCEPT !.err = NoErr]
    ELSE searchShardOutcome(resp, bufIsNil)

\* the status check comes after the insertion
searchShardOnResponse_insertBeforeStatus(resp, bufIsNil) ==
    IF resp = "UnexpectedError"
    THEN [searchShardOutcome(resp, bufIsNil) EXCEPT !.insert = ~bufIsNil, !.cost = TRUE]
    ELSE searchShardOutcome(resp, bufIsNil)

\* the answer of a stale leader is kept
searchShardOnResponse_insertStale(resp, bufIsNil) ==
    IF resp = "NotShardLeader"
    THEN [searchShardOutcome(resp, bufIsNil) EXCEPT !.insert = ~bufIsNil]
    ELSE searchShardOutcome(resp, bufIsNil)

\* a failure status is treated like a stale leader: the cache is invalidated
searchShardOnResponse_deprecateOnStatus(resp, bufIsNil) ==
    IF resp = "UnexpectedError"
    THEN [searchShardOutcome(resp, bufIsNil) EXCEPT !.deprecate = 1]
    ELSE searchShardOutcome(resp, bufIsNil)

\* what searchShard does with the answer of qn.Search
searchShardOnResponse(resp, bufIsNil) == searchShardOutcome(resp, bufIsNil)

(* ------------------- load-balancing policy (lb.Execute) ---------------- *)
\* one retry of a shard whose leader was stale
lbMaxAttempts == 2
\* the leader the policy resolves for a channel on an attempt
lbSelectNode(channel, attempt) == channel + (attempt - 1) * NumShards
lbLast(log) == log[Len(log)]
lbCanCall(log) ==
    \/ Len(log) = 0
    \/ /\ Len(log) > 0
       /\ Len(log) < lbMaxAttempts
       /\ lbLast(log).outcome # "inflight"
       /\ lbLast(log).err = Err("errInvalidShardLeaders")
lbShardDone(log) == Len(log) > 0 /\ lbLast(log).outcome # "inflight" /\ ~lbCanCall(log)
lbShardFailed(log) == lbShardDone(log) /\ lbLast(log).err # NoErr

\* Execute: the error of the policy is wrapped, success otherwise
executeReturn(lbErr) ==
    IF lbErr # NoErr
    THEN [pc |-> "execfailed", err |-> Wrap("ErrFailedToSearch", lbErr)]
    ELSE [pc |-> "executed", err |-> NoErr]

(* ------------------------------ PostExecute ---------------------------- *)
NilList == [isNil |-> TRUE, items |-> {}]

collectSearchResults_ignoreDone(done, buf) ==
    [err |-> NoErr, results |-> [isNil |-> FALSE, items |-> buf.items]]

\* select { case <-ctx.Done(): ...; default: ... }
collectSearchResults(done, buf) ==
    IF done THEN [err |-> Err("ErrTimeout"), results |-> NilList]
    ELSE [err |-> NoErr, results |-> [isNil |-> FALSE, items |-> buf.items]]

\* the reduction lets one row more than the limit through
pipelineOutcomes_noTruncate(nq, limit) ==
    {[stage |-> "new", err |-> Err("ErrNewPipeline"), result |-> NilResult],
     [stage |-> "run", err |-> Err("ErrPipelineRun"), result |-> NilResult]}
    \cup {[stage |-> "run", err |-> NoErr, result |-> [isNil |-> FALSE, Topks |-> tk]] :
            tk \in [1..nq -> 0..(limit + 1)]}

\* newBuiltInPipeline and pipeline.Run: construction may fail, the run may
\* fail (no result then), or the run reduces to at most limit rows per query
pipelineOutcomes(nq, limit) ==
    {[stage |-> "new", err |-> Err("ErrNewPipeline"), result |-> NilResult],
     [stage |-> "run", err |-> Err("ErrPipelineRun"), result |-> NilResult]}
    \cup {[stage |-> "run", err |-> NoErr, result |-> [isNil |-> FALSE, Topks |-> tk]] :
            tk \in [1..nq -> 0..limit]}

\* the collected results are published before the pipeline has reduced them
resultOfRun_unreduced(old, o) ==
    IF o.stage = "run" /\ o.err = NoErr THEN o.result ELSE [isNil |-> FALSE, Topks |-> <<>>]

\* t.result, err = pipeline.Run(...)
resultOfRun(old, o) == IF o.stage = "run" THEN o.result ELSE old

\* fillResult: the flag it computes
fillResult(sr, res) ==
    LET limit == sr.Topk - sr.Offset
    IN  \E i \in DOMAIN res.Topks : res.Topks[i] < limit

\* the rows per query the caller asked for
userLimit(req, sr) ==
    IF sr.IsAdvanced THEN req.RankParams.limit ELSE sr.Topk - sr.Offset

\* the orders in which resultBuf.Range can hand over the results of a set
Orderings(S) ==
    {f \in [1..Cardinality(S) -> S] :
        \A i, j \in 1..Cardinality(S) : f[i] = f[j] => i = j}

\* a map from channels to timestamps without entries
EmptyMvcc == [c \in {} |-> 0]

\* for ch, ts := range r.GetChannelsMvcc() { t.queryChannelsTs[ch] = ts }
recordChannelsMvcc(queryChannelsTs, channelsMvcc) ==
    [c \in DOMAIN queryChannelsTs \cup DOMAIN channelsMvcc |->
        IF c \in DOMAIN channelsMvcc THEN channelsMvcc[c] ELSE queryChannelsTs[c]]

\* the values PostExecute's bookkeeping starts from on every run
NoBookkeeping ==
    [queryChannelsTs |-> EmptyMvcc, relatedDataSize |-> 0,
     isTopkReduce |-> FALSE, isRecallEvaluation |-> FALSE]

\* t.queryChannelsTs = make(...); t.relatedDataSize = 0; both flags false
bookkeepingStart(old) == NoBookkeeping

\* the bookkeeping loop over the collected list, from element i on; answers
\* gives the partial result each element of the list stands for
RECURSIVE bookkeeping(_, _, _, _)
bookkeeping(list, i, answers, acc) ==
    IF i > Len(list) THEN acc
    ELSE LET r == answers[list[i].channel]
         IN  bookkeeping(list, i + 1, answers,
                 [queryChannelsTs |-> recordChannelsMvcc(acc.queryChannelsTs, r.ChannelsMvcc),
                  relatedDataSize |-> acc.relatedDataSize + r.TotalRelatedDataSize,
                  isTopkReduce |-> acc.isTopkReduce \/ r.IsTopkReduce,
                  isRecallEvaluation |-> acc.isRecallEvaluation \/ r.IsRecallEvaluation])

\* getMaxMvccTsFromChannels: the largest recorded watermark, or the begin
\* timestamp of the task when none is recorded
getMaxMvccTsFromChannels(queryChannelsTs, beginTs) ==
    LET recorded == {queryChannelsTs[c] : c \in DOMAIN queryChannelsTs} \ {0}
    IN  IF recorded = {} THEN beginTs
        ELSE CHOOSE m \in recorded : \A x \in recorded : x <= m

\* translateOutputFields: the primary key is taken out of the user's list and
\* remembered
translateOutputFields(outputFields) ==
    [userOutputFields |-> SelectSeq(outputFields, LAMBDA f : f # "primary"),
     userRequestedPkFieldExplicitly |-> \E i \in DOMAIN outputFields : outputFields[i] = "primary"]

\* t.result.Results.OutputFields: the user's fields, then the primary key if
\* the user asked for it
outputFieldsOf(userOutputFields, pkExplicit) ==
    IF pkExplicit THEN Append(userOutputFields, "primary") ELSE userOutputFields

\* largest magnitude of a score; scores range over -MaxScore..MaxScore
MaxScore == 1
\* the pages an iterator is followed over
MaxPages == 2
\* math.MaxFloat32, above every score
MaxFloat32 == MaxScore + 1
Scores == (0 - MaxScore)..MaxScore

\* the incoming last bound is ignored when the page is empty
getLastBound_ignoreIncoming(numScores, numQueries, lastScore, incomingLastBound, positive) ==
    IF numScores > 0 /\ numQueries = 1 THEN lastScore
    ELSE IF positive THEN MaxFloat32 ELSE 0 - MaxFloat32

\* an empty page emits the zero value whatever the request carries
getLastBound_zeroOnEmpty(numScores, numQueries, lastScore, incomingLastBound, positive) ==
    IF numScores > 0 /\ numQueries = 1 THEN lastScore
    ELSE IF ~incomingLastBound.isNil THEN 0
    ELSE IF positive THEN MaxFloat32 ELSE 0 - MaxFloat32

\* getLastBound: the last score of a single-query page, else the incoming
\* bound, else the extreme score of the metric
getLastBound(numScores, numQueries, lastScore, incomingLastBound, positive) ==
    IF numScores > 0 /\ numQueries = 1 THEN lastScore
    ELSE IF ~incomingLastBound.isNil THEN incomingLastBound.value
    ELSE IF positive THEN MaxFloat32 ELSE 0 - MaxFloat32

\* metric.PositivelyRelated
PositivelyRelated(metricType) == metricType \in {"IP", "COSINE", "BM25"}

RECURSIVE SumSeq(_, _)
SumSeq(seq, i) == IF i > Len(seq) THEN 0 ELSE seq[i] + SumSeq(seq, i + 1)

\* the first score of the page is taken for the last
lastScoreOf_first(scores) == IF scores = <<>> THEN 0 ELSE scores[1]

\* result.Results.Scores[len-1] (0 stands for the score that is never read)
lastScoreOf(scores) == IF scores = <<>> THEN 0 ELSE scores[Len(scores)]

\* the pipeline ranks the rows of a query best first: by descending score
\* for a positively related metric, by ascending score otherwise
RankedScores(n, positive) ==
    {sc \in [1..n -> Scores] :
        \A i \in 1..(n - 1) : IF positive THEN sc[i] >= sc[i + 1] ELSE sc[i] <= sc[i + 1]}

\* the scores of a reduced result of the given numbers of rows per query
\* (with several queries all rows get the same score)
ScoresOfRows(topks, positive) ==
    IF Len(topks) = 1 THEN RankedScores(topks[1], positive)
    ELSE {[i \in 1..SumSeq(topks, 1) |-> v] : v \in Scores}

\* the primary keys of the rows as result.Results.Ids holds them: the list of
\* the primary key's type is filled
idsOf(pkType, keys) ==
    IF pkType = "Int64" THEN [IntId |-> keys, StrId |-> <<>>]
    ELSE [IntId |-> <<>>, StrId |-> [i \in DOMAIN keys |-> <<"key", keys[i]>>]]

\* the orders in which n rows with the keys 1..n can be ranked
KeysOfRows(n) ==
    {ks \in [1..n -> 1..n] : \A i, j \in 1..n : ks[i] = ks[j] => i = j}

\* the columns the pipeline returns: one per user output field
pipelineFieldsData(userOutputFields) ==
    [i \in DOMAIN userOutputFields |->
        [FieldName |-> userOutputFields[i], Type |-> "column", IsDynamic |-> FALSE,
         Scalars |-> <<>>]]

\* the primary-key column is filled from the list of the other type
pkFieldData_otherList(pkType, ids) ==
    [FieldName |-> "primary", Type |-> pkType, IsDynamic |-> FALSE,
     Scalars |-> IF pkType = "Int64" THEN ids.StrId ELSE ids.IntId]

\* pkFieldData: the primary-key column, filled from the result's IDs
pkFieldData(pkType, ids) ==
    [FieldName |-> "primary", Type |-> pkType, IsDynamic |-> FALSE,
     Scalars |-> IF pkType = "Int64" THEN ids.IntId ELSE ids.StrId]

\* t.result.Results.FieldsData: the pipeline's columns, then the primary-key
\* column if the user asked for it
fieldsDataOf(columns, pkExplicit, pkType, ids) ==
    IF pkExplicit THEN Append(columns, pkFieldData(pkType, ids)) ELSE columns

(* ---------------- message handlers (package adaptor) ------------------- *)
\* the messages of the log a handler is fed from, by message ID
MaxMessageID == 3
\* the calls of Handle that are followed
MaxHandleCalls == 3
\* time ticks do not decrease along the log, and messages of the old version
\* may share one: two message IDs to a time tick
TimeTickOf(id) == (id + 1) \div 2
\* the messages a handler is given: version, time tick, message ID
Messages ==
    {[Version |-> v, TimeTick |-> TimeTickOf(id), MessageID |-> id] :
        v \in {"VersionOld", "VersionV1"}, id \in 1..MaxMessageID}
NoMessage == [Version |-> "nil", TimeTick |-> 0, MessageID |-> 0]

\* the error of a cancelled context
CtxErr == [isNil |-> FALSE, kind |-> "context canceled"]

\* message.HandleResult
HandleResult(incoming, messageHandled, error) ==
    [isNil |-> FALSE, Incoming |-> incoming, MessageHandled |-> messageHandled,
     Error |-> error]
NoResult == [isNil |-> TRUE, Incoming |-> FALSE, MessageHandled |-> FALSE, Error |-> NoErr]

\* every message of the list is kept
dedupMessages_keepAll(msgs, acc) == msgs

\* the messages of a list without those whose ID an earlier one carries
RECURSIVE dedupMessages(_, _)
dedupMessages(msgs, acc) ==
    IF msgs = <<>> THEN acc
    ELSE dedupMessages(Tail(msgs),
             IF \E i \in DOMAIN acc : acc[i].MessageID = Head(msgs).MessageID THEN acc
             ELSE Append(acc, Head(msgs)))

\* NewMsgPackFromMessage: the pack of the messages, by their IDs
NewMsgPackFromMessage(msgs) ==
    [BeginTs |-> msgs[1].TimeTick, EndTs |-> msgs[Len(msgs)].TimeTick,
     Msgs |-> [i \in DOMAIN msgs |-> msgs[i].MessageID]]

\* the pack is not added to the pending packs
addMsgPackIntoPending_notAdded(PendingMsgPack, msgs) == PendingMsgPack

\* addMsgPackIntoPending: one pack of the messages, duplicates left out
addMsgPackIntoPending(PendingMsgPack, msgs) ==
    Append(PendingMsgPack, NewMsgPackFromMessage(dedupMessages(msgs, <<>>)))

\* old-version messages are collected whatever their time tick is, and only
\* a message of a new version has them packed
GenerateMsgPack_noTimeTick(m, msg) ==
    IF msg.Version = "VersionOld"
    THEN [m EXCEPT !.Pendings = Append(@, msg)]
    ELSE [Pendings |-> <<>>,
          PendingMsgPack |->
              addMsgPackIntoPending(
                  IF Len(m.Pendings) # 0
                  THEN addMsgPackIntoPending(m.PendingMsgPack, m.Pendings)
                  ELSE m.PendingMsgPack,
                  <<msg>>)]

\* GenerateMsgPack: old-version messages of one time tick are collected and
\* packed together when a later tick or a message of a new version arrives
GenerateMsgPack(m, msg) ==
    IF msg.Version = "VersionOld"
    THEN IF Len(m.Pendings) # 0 /\ msg.TimeTick > m.Pendings[1].TimeTick
         THEN [Pendings |-> <<msg>>,
               PendingMsgPack |-> addMsgPackIntoPending(m.PendingMsgPack, m.Pendings)]
         ELSE IF Len(m.Pendings) # 0 /\ msg.TimeTick < m.Pendings[1].TimeTick
         THEN m
         ELSE [m EXCEPT !.Pendings = Append(@, msg)]
    ELSE [Pendings |-> <<>>,
          PendingMsgPack |->
              addMsgPackIntoPending(
                  IF Len(m.Pendings) # 0
                  THEN addMsgPackIntoPending(m.PendingMsgPack, m.Pendings)
                  ELSE m.PendingMsgPack,
                  <<msg>>)]

\* the pack added last is the one to send
MultipartQueueNext_last(queue) == queue[Len(queue)]

\* PendingMsgPack.Next(): the pack to send is the one added first
MultipartQueueNext(queue) == Head(queue)

\* PendingMsgPack.UnsafeAdvance(): the pack that was sent leaves the queue
UnsafeAdvance(queue) == Tail(queue)

\* the select has no case for the cancellation
selectReady_noDone(done, upstream, upstreamReady, sending, receiverReady) ==
    (IF upstream /\ upstreamReady THEN {"recv"} ELSE {})
    \cup (IF sending /\ receiverReady THEN {"send"} ELSE {})

\* the cases of the handlers' select that can proceed when it is evaluated;
\* a nil channel never can. One of the ready cases is chosen at random
selectReady(done, upstream, upstreamReady, sending, receiverReady) ==
    (IF done THEN {"done"} ELSE {})
    \cup (IF upstream /\ upstreamReady THEN {"recv"} ELSE {})
    \cup (IF sending /\ receiverReady THEN {"send"} ELSE {})

(* ------------- MemFileManagerImpl (storage/MemFileManagerImpl.cpp) ------ *)
\* the slices of a binary set, the remote files of a request, and the calls
\* that are followed
MaxSlices == 3
MaxFiles == 3
MaxFileCalls == 1
\* the memory limit of a batch and the size of a file slice, scaled down
DEFAULT_FIELD_MAX_MEMORY_LIMIT == 2
FILE_SLICE_SIZE == 1
\* a slice is empty, smaller than the memory limit, or as large as it
SliceSizes == {0, 1, DEFAULT_FIELD_MAX_MEMORY_LIMIT}

\* binary_set.binary_map_ in its iteration order, the order of the slice
\* names: slice i has the i-th name
BinarySets ==
    UNION {[1..n -> SliceSizes] : n \in 0..MaxSlices}
Prefixes == {"index", "text_log"}
\* prefix + "/" + name
SliceName(prefix, name) == <<prefix, name>>

\* remote files: paths of a directory and a file name
RemoteFiles == {<<"dir1", "x">>, <<"dir1", "y">>, <<"dir2", "x">>}
RemoteFileLists ==
    UNION {[1..n -> RemoteFiles] : n \in 0..MaxFiles}
\* the whole path of the file is its name
BaseName_path(file) == file

\* file.substr(file.find_last_of('/') + 1)
BaseName(file) == file[Len(file)]

\* a map with the entry of key replaced or added
MapPut(map, key, value) ==
    [k \in DOMAIN map \cup {key} |-> IF k = key THEN value ELSE map[k]]
EmptyMap == [k \in {} |-> 0]

\* PutIndexData: the slices are written, and each remote file is returned
\* with its size
PutIndexData(slice_sizes, slice_names) ==
    [i \in DOMAIN slice_names |-> [file |-> slice_names[i], size |-> slice_sizes[i]]]

\* the entries of res are recorded, from entry i on
RECURSIVE recordRemotePaths(_, _, _)
recordRemotePaths(paths, res, i) ==
    IF i > Len(res) THEN paths
    ELSE recordRemotePaths(MapPut(paths, res[i].file, res[i].size), res, i + 1)

\* AddBatchIndexFiles: the batch is uploaded and what PutIndexData returns
\* is recorded in remote_paths_to_size_
AddBatchIndexFiles(st) ==
    [st EXCEPT
        !.puts = Append(@, st.slice_names),
        !.remote_paths_to_size_ =
            recordRemotePaths(@, PutIndexData(st.slice_sizes, st.slice_names), 1)]

\* the batch is uploaded whatever its size
flushFullBatch_always(st) ==
    [AddBatchIndexFiles(st) EXCEPT !.slice_sizes = <<>>, !.slice_names = <<>>,
                                   !.batch_size = 0]

\* the head of the loop body of AddBinarySet: a batch that has reached the
\* memory limit is uploaded and cleared
flushFullBatch(st) ==
    IF st.batch_size >= DEFAULT_FIELD_MAX_MEMORY_LIMIT
    THEN [AddBatchIndexFiles(st) EXCEPT !.slice_sizes = <<>>, !.slice_names = <<>>,
                                        !.batch_size = 0]
    ELSE st

\* the loop of AddBinarySet over binary_map_, from slice i on
RECURSIVE AddBinarySetLoop(_, _, _, _)
AddBinarySetLoop(binary_map_, prefix, i, st) ==
    IF i > Len(binary_map_) THEN st
    ELSE LET flushed_ == flushFullBatch(st)
         IN  AddBinarySetLoop(binary_map_, prefix, i + 1,
                 [flushed_ EXCEPT
                     !.slice_sizes = Append(@, binary_map_[i]),
                     !.slice_names = Append(@, SliceName(prefix, i)),
                     !.batch_size = @ + binary_map_[i],
                     !.added_total_mem_size_ = @ + binary_map_[i]])

\* AddBinarySet: the loop, then the upload of what is left
AddBinarySetResult(binary_map_, prefix, added, paths) ==
    LET st == AddBinarySetLoop(binary_map_, prefix, 1,
                  [slice_sizes |-> <<>>, slice_names |-> <<>>, batch_size |-> 0,
                   puts |-> <<>>, added_total_mem_size_ |-> added,
                   remote_paths_to_size_ |-> paths])
    IN  IF Len(st.slice_names) > 0 THEN AddBatchIndexFiles(st) ELSE st

\* parallel_degree of LoadIndexToMemory
parallel_degree == DEFAULT_FIELD_MAX_MEMORY_LIMIT \div FILE_SLICE_SIZE

\* GetObjectData: the data of the files, in the order of the files
GetObjectData(batch_files) == [idx \in DOMAIN batch_files |-> [of |-> batch_files[idx]]]

\* the loop of LoadBatchIndexFiles over the batch, from idx on
RECURSIVE storeIndexDatas(_, _, _, _)
storeIndexDatas(file_to_index_data, batch_files, index_datas, idx) ==
    IF idx > Len(batch_files) THEN file_to_index_data
    ELSE storeIndexDatas(
             MapPut(file_to_index_data, BaseName(batch_files[idx]), index_datas[idx]),
             batch_files, index_datas, idx + 1)

\* LoadBatchIndexFiles
LoadBatchIndexFiles(st) ==
    [st EXCEPT
        !.gets = Append(@, st.batch_files),
        !.file_to_index_data =
            storeIndexDatas(@, st.batch_files, GetObjectData(st.batch_files), 1)]

\* the loop of LoadIndexToMemory over remote_files, from file i on
RECURSIVE LoadIndexLoop(_, _, _)
LoadIndexLoop(remote_files, i, st) ==
    IF i > Len(remote_files) THEN st
    ELSE LET loaded == IF Len(st.batch_files) >= parallel_degree
                       THEN [LoadBatchIndexFiles(st) EXCEPT !.batch_files = <<>>]
                       ELSE st
         IN  LoadIndexLoop(remote_files, i + 1,
                 [loaded EXCEPT !.batch_files = Append(@, remote_files[i])])

\* LoadIndexToMemory up to its assertion
LoadIndexToMemoryResult(remote_files) ==
    LET st == LoadIndexLoop(remote_files, 1,
                  [batch_files |-> <<>>, gets |-> <<>>, file_to_index_data |-> EmptyMap])
    IN  IF Len(st.batch_files) > 0 THEN LoadBatchIndexFiles(st) ELSE st

(* ------------------------------- state --------------------------------- *)
VARIABLES
    pc,                     \* phase of the task's lifecycle
    request,                \* t.request, the user's request
    collectionInfo,         \* the meta cache's entry of the collection
    SearchRequest,          \* t.SearchRequest, the internal request
    isIterator,             \* t.isIterator
    guaranteeTs,            \* PreExecute's guaranteeTs before the schema rule
    resultBuf,              \* t.resultBuf
    calls,                  \* per channel, the searchShard calls made so far
    sent,                   \* the requests handed to qn.Search
    shardCacheDeprecations, \* number of DeprecateShardCache calls
    costMetrics,            \* nodes reported through lb.UpdateCostMetrics
    ctxDone,                \* the task's context is cancelled or expired
    err,                    \* the error the last phase returned
    toReduceResults,        \* PostExecute's collected list
    pipelineRuns,           \* number of pipeline.Run calls
    result,                 \* t.result
    resultSizeInsufficient, \* t.resultSizeInsufficient
    mustUsePartitionKey,    \* t.mustUsePartitionKey
    enableMaterializedView, \* t.enableMaterializedView
    queryInfos,             \* t.queryInfos
    needRequery,            \* t.needRequery
    shardAnswers,           \* per channel, what its leader answers a search with
    queryChannelsTs,        \* t.queryChannelsTs
    relatedDataSize,        \* t.relatedDataSize
    isTopkReduce,           \* t.isTopkReduce
    isRecallEvaluation,     \* t.isRecallEvaluation
    firstRun,               \* what PostExecute left behind before it was run again
    previousPages,          \* the last bounds of the iterator's pages before this one
    skipAllocTimestamp,     \* what CanSkipAllocTimestamp told the scheduler
    handler,                \* the message handler: none, ChanMessageHandler, MsgPackAdaptorHandler
    hpc,                    \* where Handle is: idle, select, waiting, returned
    param,                  \* message.HandleParam of the call (Message, Upstream)
    base,                   \* m.base: Pendings and PendingMsgPack
    messageHandled,         \* the local variable of MsgPackAdaptorHandler.Handle
    handleCalls,            \* number of calls of Handle
    paramCtxDone,           \* param.Ctx is cancelled
    upstreamReady,          \* a message can be received from param.Upstream
    receiverReady,          \* a send into the handler's channel can proceed
    handleResult,           \* what Handle returned
    resolution,             \* how the select of that call was resolved
    channel,                \* what was sent on the handler's channel, in order
    flushed,                \* m.Pendings as it was when it was packed last
    added_total_mem_size_,  \* the file manager's added_total_mem_size_
    remote_paths_to_size_,  \* the file manager's remote_paths_to_size_
    rcm,                    \* the batches the last call handed to the chunk manager
    fileCall                \* the last call of the file manager, and the number of calls

vars == <<pc, request, collectionInfo, SearchRequest, isIterator, guaranteeTs, resultBuf,
          calls, sent, shardCacheDeprecations, costMetrics, ctxDone, err,
          toReduceResults, pipelineRuns, result, resultSizeInsufficient,
          mustUsePartitionKey, enableMaterializedView, queryInfos, needRequery,
          shardAnswers, queryChannelsTs, relatedDataSize, isTopkReduce,
          isRecallEvaluation, firstRun, previousPages, skipAllocTimestamp,
          handler, hpc, param, base, messageHandled, handleCalls, paramCtxDone,
          upstreamReady, receiverReady, handleResult, resolution, channel,
          flushed, added_total_mem_size_, remote_paths_to_size_, rcm, fileCall>>

\* the message handler and the channels and the context of its calls
handlerVars == <<handler, hpc, param, base, messageHandled, handleCalls, paramCtxDone,
                 upstreamReady, receiverReady, handleResult, resolution, channel,
                 flushed>>

\* the file manager and its last call
fileVars == <<added_total_mem_size_, remote_paths_to_size_, rcm, fileCall>>

\* what surrounds a run of the task
outerVars == <<previousPages, skipAllocTimestamp, handlerVars, fileVars>>

\* the searchTask
taskVars == <<pc, request, collectionInfo, SearchRequest, isIterator, guaranteeTs,
              resultBuf, ctxDone, err, previousPages, skipAllocTimestamp,
              calls, sent, shardCacheDeprecations, costMetrics,
              toReduceResults, pipelineRuns, result, resultSizeInsufficient,
              mustUsePartitionKey, enableMaterializedView, shardAnswers,
              queryInfos, needRequery,
              queryChannelsTs, relatedDataSize, isTopkReduce, isRecallEvaluation, firstRun>>

\* no handler is constructed yet
NoHandler ==
    /\ handler = "none"
    /\ hpc = "idle"
    /\ param = [Message |-> NoMessage, Upstream |-> FALSE]
    /\ base = [Pendings |-> <<>>, PendingMsgPack |-> <<>>]
    /\ messageHandled = FALSE
    /\ handleCalls = 0
    /\ paramCtxDone = FALSE
    /\ upstreamReady = FALSE
    /\ receiverReady = FALSE
    /\ handleResult = NoResult
    /\ resolution = [isNil |-> TRUE, doneAtEvaluation |-> FALSE, woken |-> FALSE]
    /\ channel = <<>>
    /\ flushed = <<>>

\* the file manager as constructed
NoFileCall ==
    /\ added_total_mem_size_ = 0
    /\ remote_paths_to_size_ = EmptyMap
    /\ rcm = <<>>
    /\ fileCall = [fn |-> "none", binary_set |-> <<>>, prefix |-> "",
                   remote_files |-> <<>>, returned |-> FALSE,
                   file_to_index_data |-> EmptyMap, added_before |-> 0, calls |-> 0]

execVars == <<calls, sent, shardCacheDeprecations, costMetrics>>
postVars == <<toReduceResults, pipelineRuns, result, resultSizeInsufficient>>
\* configuration of the task and answers of the shard leaders: inputs
inputVars == <<mustUsePartitionKey, enableMaterializedView, shardAnswers>>
planVars == <<queryInfos, needRequery>>
bookVars == <<queryChannelsTs, relatedDataSize, isTopkReduce, isRecallEvaluation, firstRun>>

(* ------------------------------ requests ------------------------------- *)
BaseRequest ==
    [UseDefaultConsistency |-> FALSE, ConsistencyLevel |-> "Bounded",
     GuaranteeTimestamp |-> 0, Nq |-> 1, PlaceholderGroup |-> Placeholders(1),
     SubReqs |-> <<>>,
     SearchParams |-> [topk |-> 1, offset |-> 0, iterator |-> FALSE,
                       iterV2 |-> NoIterInfo, metric |-> "L2"],
     RankParams |-> [limit |-> 1, offset |-> 0],
     PartitionNames |-> {}, Filter |-> "none", OutputFields |-> <<>>,
     FunctionInputs |-> {}]

\* the collection as the meta cache describes it; infoErrInMv and infoErr say
\* whether GetCollectionInfo fails when setQueryInfoIfMvEnable and when
\* PreExecute itself ask for it, infoErrOnEnqueue whether the lookups of
\* CanSkipAllocTimestamp fail
BaseInfo ==
    [consistencyLevel |-> "Bounded", updateTimestamp |-> 0,
     partitionKeyMode |-> FALSE, partitionKeyIsolation |-> FALSE, pkSupportsMv |-> TRUE,
     pkSchemaErr |-> FALSE, infoErrInMv |-> FALSE, infoErr |-> FALSE, infoErrOnEnqueue |-> FALSE,
     pkType |-> "Int64", collectionTTL |-> 0]

PlaceholderGroups == {Unparsable} \cup {Placeholders(k) : k \in 0..MaxNq}

\* a leg of an advanced search
Leg(n, g, f) == [Nq |-> n, PlaceholderGroup |-> g, Filter |-> f]

\* a leg declares its nq, or (older clients) leaves it to its placeholder
\* group, which holds no value, one value, or cannot be parsed
LegValues ==
    {Leg(n, Placeholders(n), "none") : n \in 1..MaxNq}
    \cup {Leg(0, g, "none") : g \in {Unparsable, Placeholders(0), Placeholders(1)}}

LegSeqs == UNION {[1..k -> LegValues] : k \in 1..MaxLegs}

\* consistency flag, level, timestamps and the iterator flag of a plain
\* search: the caller names a level, or asks for the collection's default
\* and leaves its own level unset (Strong, the zero value)
ConsistencyScenarios ==
    {[request |-> [BaseRequest EXCEPT !.ConsistencyLevel = l, !.GuaranteeTimestamp = g,
                                      !.SearchParams.iterator = it],
      collectionInfo |-> [BaseInfo EXCEPT !.updateTimestamp = ut]] :
        l \in Levels, g \in Ts, it \in BOOLEAN, ut \in Ts}
    \cup {[request |-> [BaseRequest EXCEPT !.UseDefaultConsistency = TRUE,
                                           !.ConsistencyLevel = "Strong",
                                           !.GuaranteeTimestamp = g,
                                           !.SearchParams.iterator = it],
           collectionInfo |-> [BaseInfo EXCEPT !.consistencyLevel = cl,
                                               !.updateTimestamp = ut]] :
             cl \in Levels, g \in Ts, it \in BOOLEAN, ut \in Ts}

\* nq of plain and of advanced searches
NqScenarios ==
    {[request |-> [BaseRequest EXCEPT !.Nq = n, !.PlaceholderGroup = g],
      collectionInfo |-> BaseInfo] : n \in 0..MaxNq, g \in PlaceholderGroups}
    \cup {[request |-> [BaseRequest EXCEPT !.Nq = n, !.SubReqs = legs],
           collectionInfo |-> BaseInfo] : n \in 0..MaxNq, legs \in LegSeqs}

\* top-k and offset of plain searches, rank limit and offset of advanced ones
TopkScenarios ==
    {[request |-> [BaseRequest EXCEPT !.Nq = n, !.SearchParams.topk = k,
                                      !.SearchParams.offset = o],
      collectionInfo |-> BaseInfo] : n \in 1..NQLimit, k \in 1..MaxTopk, o \in 0..(MaxTopk - 1)}
    \cup {[request |-> [BaseRequest EXCEPT !.Nq = n,
                          !.SubReqs = <<Leg(n, Placeholders(n), "none")>>,
                          !.RankParams = [limit |-> k, offset |-> o]],
           collectionInfo |-> BaseInfo] : n \in 1..NQLimit, k \in 1..MaxTopk, o \in 0..1}

Scenarios ==
    ConsistencyScenarios \cup NqScenarios
    \cup {sc \in TopkScenarios : sc.request.SearchParams.offset < sc.request.SearchParams.topk}

\* what the leader of channel s answers when nothing else is said: no flag,
\* no cost, its own channel's watermark
DefaultAnswer(s) ==
    [IsTopkReduce |-> FALSE, IsRecallEvaluation |-> FALSE, TotalRelatedDataSize |-> 0,
     ChannelsMvcc |-> [c \in {s} |-> BeginTs]]

DefaultAnswers == [s \in Shards |-> DefaultAnswer(s)]

\* partition-key mode, explicit partition names, the must-use-partition-key
\* configuration and the filter, for plain searches and one-leg advanced ones
PartitionScenarios ==
    {[request |-> [BaseRequest EXCEPT !.PartitionNames = names, !.Filter = f,
                      !.SubReqs = IF adv THEN <<Leg(1, Placeholders(1), f)>> ELSE <<>>],
      collectionInfo |-> [BaseInfo EXCEPT !.partitionKeyMode = pkm],
      mustUsePartitionKey |-> must, enableMaterializedView |-> FALSE] :
        names \in {{}, {"p1"}}, f \in Filters, adv \in BOOLEAN, pkm \in BOOLEAN,
        must \in BOOLEAN}

\* materialized views on a partition-key collection: type support, isolation,
\* the filter, and the two collection-info lookups
MvScenarios ==
    {[request |-> [BaseRequest EXCEPT !.Filter = f,
                      !.SubReqs = IF adv THEN <<Leg(1, Placeholders(1), f)>> ELSE <<>>],
      collectionInfo |-> [BaseInfo EXCEPT !.partitionKeyMode = TRUE,
                             !.partitionKeyIsolation = iso, !.pkSupportsMv = sup,
                             !.infoErrInMv = e1, !.infoErr = e2],
      mustUsePartitionKey |-> FALSE, enableMaterializedView |-> TRUE] :
        f \in Filters, adv \in BOOLEAN, iso \in BOOLEAN, sup \in BOOLEAN,
        e1 \in BOOLEAN, e2 \in BOOLEAN}
    \cup
    {[request |-> [BaseRequest EXCEPT !.Filter = f,
                      !.SubReqs = IF adv THEN <<Leg(1, Placeholders(1), f)>> ELSE <<>>],
      collectionInfo |-> [BaseInfo EXCEPT !.partitionKeyMode = TRUE,
                             !.partitionKeyIsolation = iso, !.pkSchemaErr = TRUE],
      mustUsePartitionKey |-> FALSE, enableMaterializedView |-> TRUE] :
        f \in Filters, adv \in BOOLEAN, iso \in BOOLEAN}

OutputFieldSeqs ==
    {<<>>, <<"scalar">>, <<"vector">>, <<"primary">>, <<"scalar", "primary">>}

\* output fields and input fields of the fusion function
OutputScenarios ==
    {[request |-> [BaseRequest EXCEPT !.OutputFields = of, !.FunctionInputs = fi,
                      !.SubReqs = IF adv THEN <<Leg(1, Placeholders(1), "none")>> ELSE <<>>],
      collectionInfo |-> BaseInfo,
      mustUsePartitionKey |-> FALSE, enableMaterializedView |-> FALSE] :
        of \in OutputFieldSeqs, fi \in {{}, {"f1"}}, adv \in BOOLEAN}

\* the TTL of the collection: none, shorter and longer than the time of the
\* begin timestamp, negative
TtlScenarios ==
    {[request |-> [BaseRequest EXCEPT !.SearchParams.iterator = it],
      collectionInfo |-> [BaseInfo EXCEPT !.collectionTTL = ttl, !.infoErr = e],
      mustUsePartitionKey |-> FALSE, enableMaterializedView |-> FALSE] :
        ttl \in (0 - 1)..(BeginTs + 1), it \in BOOLEAN, e \in BOOLEAN}

\* the consistency a request asks for, or leaves to the collection, with the
\* outcome of the collection lookups when the task is enqueued
EnqueueScenarios ==
    {[request |-> [BaseRequest EXCEPT !.ConsistencyLevel = l, !.GuaranteeTimestamp = g],
      collectionInfo |-> [BaseInfo EXCEPT !.infoErrOnEnqueue = e],
      mustUsePartitionKey |-> FALSE, enableMaterializedView |-> FALSE] :
        l \in Levels, g \in 0..1, e \in BOOLEAN}
    \cup {[request |-> [BaseRequest EXCEPT !.UseDefaultConsistency = TRUE,
                                           !.ConsistencyLevel = "Strong",
                                           !.GuaranteeTimestamp = g],
           collectionInfo |-> [BaseInfo EXCEPT !.consistencyLevel = cl,
                                               !.infoErrOnEnqueue = e],
           mustUsePartitionKey |-> FALSE, enableMaterializedView |-> FALSE] :
             cl \in Levels, g \in 0..1, e \in BOOLEAN}

PreScenarios ==
    PartitionScenarios \cup MvScenarios \cup OutputScenarios \cup TtlScenarios
    \cup EnqueueScenarios

\* the task as constructed and stamped by the scheduler
TaskCreated(req, info, mustUse, enableMv, answers) ==
    /\ request = req
    /\ collectionInfo = info
    /\ mustUsePartitionKey = mustUse
    /\ enableMaterializedView = enableMv
    /\ shardAnswers = answers
    /\ queryInfos = <<>>
    /\ needRequery = FALSE
    /\ queryChannelsTs = EmptyMvcc
    /\ relatedDataSize = 0
    /\ isTopkReduce = FALSE
    /\ isRecallEvaluation = FALSE
    /\ firstRun = [isNil |-> TRUE]
    /\ pc = "created"
    /\ SearchRequest = [IsAdvanced |-> FALSE, Nq |-> 0, GuaranteeTimestamp |-> 0,
                        MvccTimestamp |-> 0, ConsistencyLevel |-> "Strong",
                        IsIterator |-> FALSE, Topk |-> 0, Offset |-> 0, SubReqs |-> <<>>,
                        TargetID |-> 0, Timestamp |-> BeginTs, PartitionIDs |-> {},
                        OutputFieldsId |-> {}, SerializedExprPlan |-> NilPlan,
                        CollectionTtlTimestamps |-> 0]
    /\ isIterator = FALSE
    /\ guaranteeTs = 0
    /\ resultBuf = NilBuf
    /\ calls = [s \in Shards |-> <<>>]
    /\ sent = {}
    /\ shardCacheDeprecations = 0
    /\ costMetrics = {}
    /\ ctxDone = FALSE
    /\ err = NoErr
    /\ toReduceResults = NilList
    /\ pipelineRuns = 0
    /\ result = NilResult
    /\ resultSizeInsufficient = FALSE
    /\ previousPages = <<>>
    /\ skipAllocTimestamp = NotAsked
    /\ NoHandler
    /\ NoFileCall

Init ==
    \E sc \in Scenarios :
        TaskCreated(sc.request, sc.collectionInfo, FALSE, FALSE, DefaultAnswers)

\* the tasks whose partition-key, materialized-view and output-field inputs vary
PreInit ==
    \E sc \in PreScenarios :
        TaskCreated(sc.request, sc.collectionInfo, sc.mustUsePartitionKey,
                    sc.enableMaterializedView, DefaultAnswers)

\* the channels whose leaders' answers vary
AnswerChannels == {c \in Shards : c <= 2}

\* the leaders of the other channels answer as DefaultAnswer says
AnswersWith(a) ==
    [s \in Shards |-> IF s \in AnswerChannels THEN a[s] ELSE DefaultAnswer(s)]

\* the flags and the related-data size the leaders report
FlagAnswers ==
    {AnswersWith([s \in AnswerChannels |->
                     [DefaultAnswer(s) EXCEPT !.IsTopkReduce = f[s][1],
                                              !.IsRecallEvaluation = f[s][2],
                                              !.TotalRelatedDataSize = f[s][3]]]) :
        f \in [AnswerChannels -> BOOLEAN \X BOOLEAN \X (0..1)]}

\* the watermarks the leaders report: each result's ChannelsMvcc map has one
\* entry, for a channel and with a timestamp of its choice
MvccAnswers ==
    {AnswersWith([s \in AnswerChannels |->
                     [DefaultAnswer(s) EXCEPT !.ChannelsMvcc = [c \in {m[s][1]} |-> m[s][2]]]]) :
        m \in [AnswerChannels -> AnswerChannels \X Ts]}

\* the iterator-v2 info a request can carry: none, one without a last bound
\* (first page), one with the last bound of the page before
IterInfos == {NoIterInfo, IterInfo(NoBound)} \cup {IterInfo(Bound(v)) : v \in Scores}

\* the tasks whose shard answers, iterator parameters and output fields vary
PostScenarios ==
    {[request |-> BaseRequest, collectionInfo |-> BaseInfo, answers |-> a] :
        a \in FlagAnswers}
    \cup {[request |-> [BaseRequest EXCEPT !.SearchParams.iterator = it,
                                           !.GuaranteeTimestamp = g],
           collectionInfo |-> BaseInfo, answers |-> a] :
             it \in BOOLEAN, g \in 0..1, a \in MvccAnswers}
    \cup {[request |-> [BaseRequest EXCEPT !.SearchParams.iterator = TRUE,
                                           !.SearchParams.iterV2 = iv,
                                           !.SearchParams.metric = mt,
                                           !.Nq = n,
                                           !.PlaceholderGroup = Placeholders(n)],
           collectionInfo |-> BaseInfo, answers |-> DefaultAnswers] :
             iv \in IterInfos, mt \in {"L2", "IP"}, n \in 1..NQLimit}
    \cup {[request |-> sc.request, collectionInfo |-> sc.collectionInfo,
           answers |-> DefaultAnswers] :
             sc \in {x \in OutputScenarios \cup TopkScenarios :
                        x.request.SearchParams.offset < x.request.SearchParams.topk}}

PostInit ==
    \E sc \in PostScenarios :
        TaskCreated(sc.request, sc.collectionInfo, FALSE, FALSE, sc.answers)

(* ------------------------------ actions -------------------------------- *)
\* what a return of PreExecute leaves in the task
PreExecuteReturns(p, e, req, sr, isIter, gts, buf, qis, requery) ==
    /\ pc' = p
    /\ err' = e
    /\ request' = req
    /\ SearchRequest' = sr
    /\ isIterator' = isIter
    /\ guaranteeTs' = gts
    /\ resultBuf' = buf
    /\ queryInfos' = qis
    /\ needRequery' = requery

\* PreExecute from GetCollectionInfo on: the consistency level and the
\* guarantee timestamp, the TTL cutoff, then the result buffer
PreExecuteResolve(req, sr, isIter, qis, requery) ==
    IF collectionInfo.infoErr
    THEN PreExecuteReturns("prefailed", Err("ErrCollectionInfo"), req, sr, isIter,
                           guaranteeTs, resultBuf, qis, requery)
    ELSE LET r == resolveGuaranteeTs(req, collectionInfo, sr.Timestamp)
             g == raiseToUpdateTimestamp(r.ts, collectionInfo.updateTimestamp)
             sr2 == [sr EXCEPT !.GuaranteeTimestamp = g, !.ConsistencyLevel = r.level]
             sr3 == [iteratorPin(sr2, isIter, req) EXCEPT !.IsIterator = isIter]
             ttl == collectionTtlCutoff(collectionInfo.collectionTTL, sr.Timestamp)
             sr4 == IF ttl.computed
                    THEN [sr3 EXCEPT !.CollectionTtlTimestamps = ttl.CollectionTtlTimestamps]
                    ELSE sr3
         IN  IF ttl.err # NoErr
             THEN PreExecuteReturns("prefailed", ttl.err, req, sr4, isIter, r.ts,
                                    resultBuf, qis, requery)
             ELSE PreExecuteReturns("preexecuted", NoErr, req, sr4, isIter, r.ts,
                                    [isNil |-> FALSE, items |-> {}], qis, requery)

\* the return of init*SearchRequest: pk is the outcome of the partition-key
\* step of the plan, or of the plans of the legs; in partition-key mode the
\* partitions of the plans are the task's partitions
PreExecutePlanned(isAdv, req, sr, init, pk, requery) ==
    IF pk.err # NoErr
    THEN PreExecuteReturns("prefailed", pk.err, req,
                           [sr EXCEPT !.Offset = init.sr.Offset], init.isIterator,
                           guaranteeTs, resultBuf, queryInfos,
                           IF isAdv THEN requery ELSE needRequery)
    ELSE PreExecuteResolve(req,
                           IF isAdv /\ ~collectionInfo.partitionKeyMode THEN init.sr
                           ELSE [init.sr EXCEPT !.PartitionIDs = pk.ids],
                           init.isIterator, pk.queryInfos, requery)

\* the partition-key step of a plain search's plan, with the one query info
\* of the task
plainPartitionKeyStep(req, old) ==
    LET st == partitionKeyStep(collectionInfo.partitionKeyMode, enableMaterializedView,
                               collectionInfo, req.Filter, old)
    IN  [err |-> st.err, ids |-> st.ids,
         queryInfos |-> <<[st.queryInfo EXCEPT !.SearchIteratorV2Info =
                               req.SearchParams.iterV2]>>]

\* PreExecute from init*SearchRequest on
PreExecuteInit(isAdv, req, sr) ==
    PreExecutePlanned(isAdv, req, sr,
        IF isAdv THEN initAdvancedSearchRequest(sr, req, isIterator)
        ELSE initSearchRequest(sr, req),
        IF isAdv
        THEN legsPartitionKeyStep(req.SubReqs, 1, collectionInfo.partitionKeyMode,
                 enableMaterializedView, collectionInfo,
                 [err |-> NoErr, queryInfos |-> <<>>, ids |-> {}])
        ELSE plainPartitionKeyStep(req, sr.PartitionIDs),
        needRequeryOf(isAdv, {req.OutputFields[i] : i \in DOMAIN req.OutputFields},
                      req.FunctionInputs))

\* PreExecute from checkNq on
PreExecuteNq(isAdv, sr, n) ==
    IF n.err # NoErr
    THEN PreExecuteReturns("prefailed", n.err, n.req, sr, isIterator, guaranteeTs,
                           resultBuf, queryInfos, needRequery)
    ELSE PreExecuteInit(isAdv, n.req,
                        [sr EXCEPT !.Nq = n.nq,
                                   !.OutputFieldsId = getOutputFieldIDs(n.req.OutputFields)])

\* PreExecute from the partition-key checks on
PreExecuteChecked(isAdv, sr, chk) ==
    IF chk # NoErr
    THEN PreExecuteReturns("prefailed", chk, request, sr, isIterator, guaranteeTs,
                           resultBuf, queryInfos, needRequery)
    ELSE PreExecuteNq(isAdv,
             [sr EXCEPT !.PartitionIDs =
                 resolvePartitionNames(collectionInfo.partitionKeyMode,
                                       request.PartitionNames, @)],
             checkNq(isAdv, request))

\* the scheduler asks whether the task needs a freshly allocated timestamp
\* when it enqueues the task
CanSkipAllocTimestamp ==
    /\ pc = "created"
    /\ skipAllocTimestamp.isNil
    /\ skipAllocTimestamp' = canSkipAllocTimestamp(request, collectionInfo)
    /\ UNCHANGED <<pc, request, collectionInfo, SearchRequest, isIterator, guaranteeTs,
                   resultBuf, ctxDone, err, previousPages>>
    /\ UNCHANGED <<handlerVars, fileVars>>
    /\ UNCHANGED execVars
    /\ UNCHANGED postVars
    /\ UNCHANGED inputVars
    /\ UNCHANGED planVars
    /\ UNCHANGED bookVars

PreExecute ==
    /\ pc = "created"
    /\ ~skipAllocTimestamp.isNil
    /\ PreExecuteChecked(Len(request.SubReqs) > 0,
                         [SearchRequest EXCEPT !.IsAdvanced = Len(request.SubReqs) > 0],
                         checkPartitionNames(collectionInfo.partitionKeyMode,
                                             mustUsePartitionKey, request.PartitionNames))
    /\ UNCHANGED <<collectionInfo, ctxDone>>
    /\ UNCHANGED execVars
    /\ UNCHANGED postVars
    /\ UNCHANGED inputVars
    /\ UNCHANGED outerVars
    /\ UNCHANGED bookVars

\* the caller cancels, or the deadline of the context passes. The task reads
\* its context in collectSearchResults only, so a cancellation at any earlier
\* moment is the one taken here, once Execute has returned
Cancel ==
    /\ ~ctxDone
    /\ pc = "executed"
    /\ ctxDone' = TRUE
    /\ UNCHANGED <<pc, request, collectionInfo, SearchRequest, isIterator, guaranteeTs,
                   resultBuf, err>>
    /\ UNCHANGED execVars
    /\ UNCHANGED postVars
    /\ UNCHANGED inputVars
    /\ UNCHANGED outerVars
    /\ UNCHANGED planVars
    /\ UNCHANGED bookVars

\* Execute hands the workload to the policy
ExecuteBegin ==
    /\ pc = "preexecuted"
    /\ pc' = "executing"
    /\ UNCHANGED <<request, collectionInfo, SearchRequest, isIterator, guaranteeTs,
                   resultBuf, ctxDone, err>>
    /\ UNCHANGED execVars
    /\ UNCHANGED postVars
    /\ UNCHANGED inputVars
    /\ UNCHANGED outerVars
    /\ UNCHANGED planVars
    /\ UNCHANGED bookVars

\* the policy calls searchShard for a channel: clone, address, qn.Search
SearchShardCall(s) ==
    /\ pc = "executing"
    /\ lbCanCall(calls[s])
    /\ LET a == Len(calls[s]) + 1
           node == lbSelectNode(s, a)
           c == searchShardRequest(SearchRequest, node, s)
       IN  /\ SearchRequest' = c.shared
           /\ sent' = sent \cup {[channel |-> s, attempt |-> a, req |-> c.req]}
           /\ calls' = [calls EXCEPT ![s] = Append(@, [node |-> node, outcome |-> "inflight",
                                                      err |-> NoErr, deprecated |-> 0,
                                                      inserted |-> FALSE, cost |-> FALSE])]
    /\ UNCHANGED <<pc, request, collectionInfo, isIterator, guaranteeTs, resultBuf,
                   shardCacheDeprecations, costMetrics, ctxDone, err>>
    /\ UNCHANGED postVars
    /\ UNCHANGED inputVars
    /\ UNCHANGED outerVars
    /\ UNCHANGED planVars
    /\ UNCHANGED bookVars

\* qn.Search answers and searchShard returns
SearchShardReturn(s, resp) ==
    /\ pc = "executing"
    /\ Len(calls[s]) > 0
    /\ lbLast(calls[s]).outcome = "inflight"
    /\ LET a == Len(calls[s])
           c == calls[s][a]
           h == searchShardOnResponse(resp, resultBuf.isNil)
       IN  /\ calls' = [calls EXCEPT ![s][a] = [c EXCEPT !.outcome = resp, !.err = h.err,
                                                         !.deprecated = h.deprecate,
                                                         !.inserted = h.insert,
                                                         !.cost = h.cost]]
           /\ shardCacheDeprecations' = shardCacheDeprecations + h.deprecate
           /\ resultBuf' = IF h.insert
                           THEN [resultBuf EXCEPT !.items = @ \cup
                                    {[channel |-> s, node |-> c.node, status |-> resp]}]
                           ELSE resultBuf
           /\ costMetrics' = IF h.cost THEN costMetrics \cup {c.node} ELSE costMetrics
    /\ UNCHANGED <<pc, request, collectionInfo, SearchRequest, isIterator, guaranteeTs,
                   sent, ctxDone, err>>
    /\ UNCHANGED postVars
    /\ UNCHANGED inputVars
    /\ UNCHANGED outerVars
    /\ UNCHANGED planVars
    /\ UNCHANGED bookVars

\* the policy returns once every channel is settled; Execute returns
ExecuteEnd ==
    /\ pc = "executing"
    /\ \A s \in Shards : lbShardDone(calls[s])
    /\ LET failed == {s \in Shards : lbShardFailed(calls[s])}
       IN  IF failed = {}
           THEN /\ pc' = executeReturn(NoErr).pc
                /\ err' = executeReturn(NoErr).err
           ELSE \E s \in failed :
                /\ pc' = executeReturn(lbLast(calls[s]).err).pc
                /\ err' = executeReturn(lbLast(calls[s]).err).err
    /\ UNCHANGED <<request, collectionInfo, SearchRequest, isIterator, guaranteeTs,
                   resultBuf, ctxDone>>
    /\ UNCHANGED execVars
    /\ UNCHANGED postVars
    /\ UNCHANGED inputVars
    /\ UNCHANGED outerVars
    /\ UNCHANGED planVars
    /\ UNCHANGED bookVars

\* what PostExecute writes into the reduced result, whose rows are given by
\* their scores and IDs: the output-field list and the columns, the
\* iterator's last bound, the session timestamp
resultOfPostExecute(res, rows, outputFields, fieldsData, lastBound, sessionTs) ==
    [isNil |-> res.isNil, Topks |-> res.Topks, Scores |-> rows.Scores, Ids |-> rows.Ids,
     OutputFields |-> outputFields, FieldsData |-> fieldsData,
     SearchIteratorV2Results |-> lastBound, SessionTs |-> sessionTs]

\* PostExecute after a successful collection: the bookkeeping over the list
\* as Range handed it over, the pipeline with outcome o, and the decoration
\* of the result; rows holds the scores and the IDs of the reduced rows
PostExecuteOver(list, o, rows) ==
    LET book == bookkeeping(list, 1, shardAnswers,
                    bookkeepingStart([queryChannelsTs |-> queryChannelsTs,
                                      relatedDataSize |-> relatedDataSize,
                                      isTopkReduce |-> isTopkReduce,
                                      isRecallEvaluation |-> isRecallEvaluation]))
        out == translateOutputFields(request.OutputFields)
        emitBound == /\ isIterator
                     /\ Len(queryInfos) = 1
                     /\ ~queryInfos[1].SearchIteratorV2Info.isNil
        lastBound == IF emitBound
                     THEN Bound(getLastBound(Len(rows.Scores), SearchRequest.Nq,
                                    lastScoreOf(rows.Scores),
                                    queryInfos[1].SearchIteratorV2Info.LastBound,
                                    PositivelyRelated(request.SearchParams.metric)))
                     ELSE NoBound
        sessionTs == IF isIterator /\ request.GuaranteeTimestamp = 0
                     THEN getMaxMvccTsFromChannels(book.queryChannelsTs, BeginTs)
                     ELSE 0
    IN  /\ queryChannelsTs' = book.queryChannelsTs
        /\ relatedDataSize' = book.relatedDataSize
        /\ isTopkReduce' = book.isTopkReduce
        /\ isRecallEvaluation' = book.isRecallEvaluation
        /\ pipelineRuns' = pipelineRuns + (IF o.stage = "run" THEN 1 ELSE 0)
        /\ err' = o.err
        /\ IF o.err # NoErr
           THEN /\ pc' = "postfailed"
                /\ result' = resultOfRun(result, o)
                /\ UNCHANGED resultSizeInsufficient
           ELSE /\ pc' = "postdone"
                /\ result' = resultOfPostExecute(resultOfRun(result, o), rows,
                                 outputFieldsOf(out.userOutputFields,
                                                out.userRequestedPkFieldExplicitly),
                                 fieldsDataOf(pipelineFieldsData(out.userOutputFields),
                                              out.userRequestedPkFieldExplicitly,
                                              collectionInfo.pkType, rows.Ids),
                                 lastBound, sessionTs)
                /\ resultSizeInsufficient' = fillResult(SearchRequest, o.result)

\* the rows a reduced result can hold. Their scores are followed for the
\* pages of an iterator that carries iterator-v2 info and are 0 otherwise;
\* their keys are followed when the user asked for the primary key and are
\* 1, 2, ... otherwise
RowsOfResult(res) ==
    LET n == IF res.isNil THEN 0 ELSE SumSeq(res.Topks, 1)
        scores == IF n > 0 /\ isIterator /\ ~request.SearchParams.iterV2.isNil
                  THEN ScoresOfRows(res.Topks,
                                    PositivelyRelated(request.SearchParams.metric))
                  ELSE {[i \in 1..n |-> 0]}
        keys == IF translateOutputFields(request.OutputFields).userRequestedPkFieldExplicitly
                THEN KeysOfRows(n)
                ELSE {[i \in 1..n |-> i]}
    IN  {[Scores |-> sc, Ids |-> idsOf(collectionInfo.pkType, ks)] :
            sc \in scores, ks \in keys}

PostExecute ==
    /\ pc = "executed"
    /\ LET col == collectSearchResults(ctxDone, resultBuf)
       IN  IF col.err # NoErr
           THEN /\ pc' = "postfailed"
                /\ err' = col.err
                /\ toReduceResults' = col.results
                /\ UNCHANGED <<pipelineRuns, result, resultSizeInsufficient>>
                /\ UNCHANGED <<queryChannelsTs, relatedDataSize, isTopkReduce,
                               isRecallEvaluation>>
           ELSE \E list \in Orderings(col.results.items) :
                \E o \in pipelineOutcomes(SearchRequest.Nq, userLimit(request, SearchRequest)) :
                \E rows \in RowsOfResult(o.result) :
                /\ toReduceResults' = col.results
                /\ PostExecuteOver(list, o, rows)
    /\ UNCHANGED <<request, collectionInfo, SearchRequest, isIterator, guaranteeTs,
                   resultBuf, ctxDone, firstRun>>
    /\ UNCHANGED execVars
    /\ UNCHANGED inputVars
    /\ UNCHANGED outerVars
    /\ UNCHANGED planVars

\* what a run of PostExecute leaves behind
outputOfRun ==
    [isNil |-> FALSE, result |-> result, queryChannelsTs |-> queryChannelsTs,
     relatedDataSize |-> relatedDataSize, isTopkReduce |-> isTopkReduce,
     isRecallEvaluation |-> isRecallEvaluation,
     resultSizeInsufficient |-> resultSizeInsufficient]

\* PostExecute is run once more over the unmodified result set: Range may
\* hand the results over in another order, the pipeline reduces the same
\* results to the same rows
RePostExecute ==
    /\ pc = "postdone"
    /\ firstRun.isNil
    /\ firstRun' = outputOfRun
    /\ LET col == collectSearchResults(ctxDone, resultBuf)
           o == [stage |-> "run", err |-> NoErr,
                 result |-> [isNil |-> FALSE, Topks |-> result.Topks]]
       IN  /\ col.err = NoErr
           /\ \E list \in Orderings(col.results.items) :
                /\ toReduceResults' = col.results
                /\ PostExecuteOver(list, o, [Scores |-> result.Scores, Ids |-> result.Ids])
    /\ UNCHANGED <<request, collectionInfo, SearchRequest, isIterator, guaranteeTs,
                   resultBuf, ctxDone>>
    /\ UNCHANGED execVars
    /\ UNCHANGED inputVars
    /\ UNCHANGED outerVars
    /\ UNCHANGED planVars

Next ==
    \/ CanSkipAllocTimestamp
    \/ PreExecute
    \/ Cancel
    \/ ExecuteBegin
    \/ \E s \in Shards : SearchShardCall(s)
    \/ \E s \in Shards, resp \in Responses : SearchShardReturn(s, resp)
    \/ ExecuteEnd
    \/ PostExecute

Spec == Init /\ [][Next]_vars

\* the tasks of PreInit, through the same lifecycle
PreSpec == PreInit /\ [][Next]_vars

\* the tasks of PostInit; PostExecute may be run a second time
PostNext ==
    \/ Next
    \/ RePostExecute

PostSpec == PostInit /\ [][PostNext]_vars


\* the pages of an iterator: the first page of a single-query search, with
\* its metric and its page size, and of a search with several queries; and
\* plain searches over collections of
\* either primary-key type, with their output fields
PageScenarios ==
    {[request |-> [BaseRequest EXCEPT !.SearchParams.iterator = TRUE,
                                      !.SearchParams.iterV2 = IterInfo(NoBound),
                                      !.SearchParams.metric = mt,
                                      !.SearchParams.topk = k],
      collectionInfo |-> BaseInfo] : mt \in {"L2", "IP"}, k \in 1..MaxTopk}
    \cup {[request |-> [BaseRequest EXCEPT !.SearchParams.iterator = TRUE,
                                           !.SearchParams.iterV2 = IterInfo(NoBound),
                                           !.SearchParams.metric = mt,
                                           !.Nq = n,
                                           !.PlaceholderGroup = Placeholders(n)],
           collectionInfo |-> BaseInfo] : mt \in {"L2", "IP"}, n \in 2..NQLimit}
    \cup {[request |-> [BaseRequest EXCEPT !.OutputFields = of,
                                           !.SearchParams.topk = MaxTopk],
           collectionInfo |-> [BaseInfo EXCEPT !.pkType = t]] :
             of \in OutputFieldSeqs \ {<<"vector">>}, t \in {"Int64", "VarChar"}}

PageInit ==
    \E sc \in PageScenarios :
        TaskCreated(sc.request, sc.collectionInfo, FALSE, FALSE, DefaultAnswers)

\* the caller asks for the next page of the iterator: the request carries the
\* last bound of the page just returned, and the session timestamp of the
\* first page as its guarantee timestamp; a new task is constructed for it
NextPage ==
    /\ pc = "postdone"
    /\ isIterator
    /\ ~result.SearchIteratorV2Results.isNil
    /\ Len(previousPages) + 1 < MaxPages
    /\ previousPages' = Append(previousPages, result.SearchIteratorV2Results)
    /\ request' = [request EXCEPT
                      !.SearchParams.iterV2 = IterInfo(result.SearchIteratorV2Results),
                      !.GuaranteeTimestamp = IF @ = 0 THEN result.SessionTs ELSE @]
    /\ queryInfos' = <<>>
    /\ needRequery' = FALSE
    /\ queryChannelsTs' = EmptyMvcc
    /\ relatedDataSize' = 0
    /\ isTopkReduce' = FALSE
    /\ isRecallEvaluation' = FALSE
    /\ firstRun' = [isNil |-> TRUE]
    /\ pc' = "created"
    /\ SearchRequest' = [IsAdvanced |-> FALSE, Nq |-> 0, GuaranteeTimestamp |-> 0,
                         MvccTimestamp |-> 0, ConsistencyLevel |-> "Strong",
                         IsIterator |-> FALSE, Topk |-> 0, Offset |-> 0, SubReqs |-> <<>>,
                         TargetID |-> 0, Timestamp |-> BeginTs, PartitionIDs |-> {},
                         OutputFieldsId |-> {}, SerializedExprPlan |-> NilPlan,
                         CollectionTtlTimestamps |-> 0]
    /\ isIterator' = FALSE
    /\ guaranteeTs' = 0
    /\ resultBuf' = NilBuf
    /\ calls' = [s \in Shards |-> <<>>]
    /\ sent' = {}
    /\ shardCacheDeprecations' = 0
    /\ costMetrics' = {}
    /\ ctxDone' = FALSE
    /\ err' = NoErr
    /\ toReduceResults' = NilList
    /\ pipelineRuns' = 0
    /\ result' = NilResult
    /\ resultSizeInsufficient' = FALSE
    /\ skipAllocTimestamp' = NotAsked
    /\ UNCHANGED <<handlerVars, fileVars>>
    /\ UNCHANGED collectionInfo
    /\ UNCHANGED inputVars

PageNext ==
    \/ Next
    \/ NextPage

\* the pages of an iterator, one task after the other
PageSpec == PageInit /\ [][PageNext]_vars


(* --------------------- actions of the message handlers ----------------- *)
Handlers == {"ChanMessageHandler", "MsgPackAdaptorHandler"}

\* make(ChanMessageHandler), NewMsgPackAdaptorHandler
NewHandler(h) ==
    /\ handler = "none"
    /\ handler' = h
    /\ UNCHANGED <<hpc, param, base, messageHandled, handleCalls, paramCtxDone,
                   upstreamReady, receiverReady, handleResult, resolution, channel,
                   flushed>>
    /\ UNCHANGED <<taskVars, fileVars>>

\* the send case of the select has a channel also when there is nothing to
\* send
sending_always == TRUE

\* sendingCh, sendCh: whether the send case of the select has a channel
sending ==
    IF handler = "ChanMessageHandler" THEN param.Message # NoMessage
    ELSE Len(base.PendingMsgPack) # 0

\* Handle returns
HandleReturns(res) ==
    /\ hpc' = "returned"
    /\ handleResult' = res

\* the select proceeds with case c, chosen when it was evaluated or by the
\* event that woke the waiting call
selectCase(c, woken) ==
    /\ resolution' = [isNil |-> FALSE, doneAtEvaluation |-> paramCtxDone /\ ~woken,
                      woken |-> woken]
    /\ CASE c = "done" ->
              /\ HandleReturns(HandleResult(FALSE, messageHandled, CtxErr))
              /\ UNCHANGED <<base, channel>>
         [] c = "recv" ->
              /\ HandleReturns(HandleResult(TRUE, messageHandled, NoErr))
              /\ UNCHANGED <<base, channel>>
         [] c = "send" /\ handler = "ChanMessageHandler" ->
              /\ channel' = Append(channel, param.Message)
              /\ HandleReturns(HandleResult(FALSE, TRUE, NoErr))
              /\ UNCHANGED base
         [] OTHER ->
              /\ channel' = Append(channel, MultipartQueueNext(base.PendingMsgPack))
              /\ base' = [base EXCEPT !.PendingMsgPack = UnsafeAdvance(@)]
              /\ IF Len(base.PendingMsgPack) > 1
                 THEN UNCHANGED <<hpc, handleResult>>
                 ELSE HandleReturns(HandleResult(FALSE, messageHandled, NoErr))

\* a message is taken in also while message packs are pending
absorbs_pending(msg, PendingMsgPack) == msg # NoMessage

\* MsgPackAdaptorHandler.Handle takes in the message of the call only if
\* there is one and no pack is waiting to be sent
absorbs(msg, PendingMsgPack) == msg # NoMessage /\ Len(PendingMsgPack) = 0

\* the time tick of the message taken in last
lastTimeTick ==
    IF Len(base.Pendings) # 0 THEN base.Pendings[Len(base.Pendings)].TimeTick
    ELSE IF Len(base.PendingMsgPack) # 0
         THEN base.PendingMsgPack[Len(base.PendingMsgPack)].EndTs
    ELSE IF Len(channel) # 0 THEN channel[Len(channel)].EndTs
    ELSE 0

\* Handle is called, and runs up to its select
Handle(msg, upstream) ==
    /\ handler # "none"
    /\ hpc \in {"idle", "returned"}
    /\ handleCalls < MaxHandleCalls
    /\ handler = "ChanMessageHandler" => msg.TimeTick <= 1 /\ msg.MessageID <= 1
    /\ handleCalls' = handleCalls + 1
    /\ param' = [Message |-> msg, Upstream |-> upstream]
    /\ resolution' = [isNil |-> TRUE, doneAtEvaluation |-> FALSE, woken |-> FALSE]
    /\ IF handler = "ChanMessageHandler"
       THEN /\ hpc' = "select"
            /\ handleResult' = NoResult
            /\ UNCHANGED <<base, messageHandled, flushed>>
       ELSE LET generate == absorbs(msg, base.PendingMsgPack)
                m == IF generate THEN GenerateMsgPack(base, msg) ELSE base
            IN  /\ base' = m
                /\ flushed' = IF Len(base.Pendings) # 0
                                   /\ Len(m.PendingMsgPack) > Len(base.PendingMsgPack)
                               THEN base.Pendings ELSE flushed
                /\ messageHandled' = generate
                /\ IF Len(m.PendingMsgPack) = 0 /\ ~upstream
                   THEN HandleReturns(HandleResult(FALSE, generate, NoErr))
                   ELSE /\ hpc' = "select"
                        /\ handleResult' = NoResult
    /\ UNCHANGED <<handler, paramCtxDone, upstreamReady, receiverReady, channel>>
    /\ UNCHANGED <<taskVars, fileVars>>

\* the select is evaluated: one of the cases that can proceed is taken, and
\* the call waits if none can
Select ==
    /\ hpc = "select"
    /\ LET ready == selectReady(paramCtxDone, param.Upstream, upstreamReady, sending,
                                receiverReady)
       IN  IF ready = {}
           THEN /\ hpc' = "waiting"
                /\ UNCHANGED <<base, handleResult, resolution, upstreamReady,
                               receiverReady, channel>>
           ELSE \E c \in ready :
                    /\ selectCase(c, FALSE)
                    /\ upstreamReady' = (upstreamReady /\ c # "recv")
                    /\ receiverReady' = (receiverReady /\ c # "send")
    /\ UNCHANGED <<handler, param, messageHandled, handleCalls, paramCtxDone,
                   flushed>>
    /\ UNCHANGED <<taskVars, fileVars>>

\* a call of Handle is at its select; what happens around the handler is
\* followed while it is
InCall == hpc \in {"select", "waiting"}

\* the context of the call is cancelled; a waiting call is woken by it
CtxCancel ==
    /\ InCall
    /\ ~paramCtxDone
    /\ paramCtxDone' = TRUE
    /\ IF hpc = "waiting" THEN selectCase("done", TRUE)
       ELSE UNCHANGED <<hpc, base, handleResult, resolution, channel>>
    /\ UNCHANGED <<handler, param, messageHandled, handleCalls, upstreamReady,
                   receiverReady,
                   flushed>>
    /\ UNCHANGED <<taskVars, fileVars>>

\* a message arrives on the upstream channel; a call waiting to receive is
\* woken by it
UpstreamSends ==
    /\ InCall
    /\ ~upstreamReady
    /\ IF hpc = "waiting" /\ param.Upstream
       THEN /\ selectCase("recv", TRUE)
            /\ UNCHANGED upstreamReady
       ELSE /\ upstreamReady' = TRUE
            /\ UNCHANGED <<hpc, base, handleResult, resolution, channel>>
    /\ UNCHANGED <<handler, param, messageHandled, handleCalls, paramCtxDone,
                   receiverReady,
                   flushed>>
    /\ UNCHANGED <<taskVars, fileVars>>

\* the consumer comes to receive from the handler's channel; a call waiting
\* to send is woken by it
DownstreamReceives ==
    /\ InCall
    /\ ~receiverReady
    /\ IF hpc = "waiting" /\ sending
       THEN /\ selectCase("send", TRUE)
            /\ UNCHANGED receiverReady
       ELSE /\ receiverReady' = TRUE
            /\ UNCHANGED <<hpc, base, handleResult, resolution, channel>>
    /\ UNCHANGED <<handler, param, messageHandled, handleCalls, paramCtxDone,
                   upstreamReady,
                   flushed>>
    /\ UNCHANGED <<taskVars, fileVars>>

HandlerInit == TaskCreated(BaseRequest, BaseInfo, FALSE, FALSE, DefaultAnswers)

HandlerNext ==
    \/ \E h \in Handlers : NewHandler(h)
    \/ \E msg \in Messages \cup {NoMessage}, upstream \in BOOLEAN : Handle(msg, upstream)
    \/ Select
    \/ CtxCancel
    \/ UpstreamSends
    \/ DownstreamReceives

\* the calls of a handler; a call that evaluates its select goes on
HandlerSpec == HandlerInit /\ [][HandlerNext]_vars /\ WF_vars(Select)

\* the calls of a handler whose consumer keeps receiving from the channel
ConsumedSpec ==
    HandlerInit /\ [][HandlerNext]_vars /\ WF_vars(Select) /\ WF_vars(DownstreamReceives)


(* ---------------------- actions of MemFileManagerImpl ------------------ *)
\* AddBinarySet(binary_set, prefix)
AddBinarySet(binary_set, prefix) ==
    /\ fileCall.calls < MaxFileCalls
    /\ LET st == AddBinarySetResult(binary_set, prefix, added_total_mem_size_,
                                    remote_paths_to_size_)
       IN  /\ added_total_mem_size_' = st.added_total_mem_size_
           /\ remote_paths_to_size_' = st.remote_paths_to_size_
           /\ rcm' = st.puts
    /\ fileCall' = [fn |-> "AddBinarySet", binary_set |-> binary_set, prefix |-> prefix,
                    remote_files |-> <<>>, returned |-> TRUE,
                    file_to_index_data |-> EmptyMap,
                    added_before |-> added_total_mem_size_,
                    calls |-> fileCall.calls + 1]
    /\ UNCHANGED <<taskVars, handlerVars>>

\* LoadIndexToMemory(remote_files, priority); it throws when its assertion
\* fails
LoadIndexToMemory(remote_files) ==
    /\ fileCall.calls < MaxFileCalls
    /\ LET st == LoadIndexToMemoryResult(remote_files)
       IN  /\ rcm' = st.gets
           /\ fileCall' = [fn |-> "LoadIndexToMemory", binary_set |-> <<>>,
                           prefix |-> "", remote_files |-> remote_files,
                           returned |-> (Cardinality(DOMAIN st.file_to_index_data)
                                             = Len(remote_files)),
                           file_to_index_data |-> st.file_to_index_data,
                           added_before |-> added_total_mem_size_,
                           calls |-> fileCall.calls + 1]
    /\ UNCHANGED <<added_total_mem_size_, remote_paths_to_size_>>
    /\ UNCHANGED <<taskVars, handlerVars>>

FileInit == TaskCreated(BaseRequest, BaseInfo, FALSE, FALSE, DefaultAnswers)

FileNext ==
    \/ \E binary_set \in BinarySets, prefix \in Prefixes : AddBinarySet(binary_set, prefix)
    \/ \E remote_files \in RemoteFileLists : LoadIndexToMemory(remote_files)

\* the calls of one file manager
FileSpec == FileInit /\ [][FileNext]_vars


(* ------------------------------ properties ----------------------------- *)
PreExecuted == pc \notin {"created", "prefailed"}
ExecuteReturned == pc \in {"executed", "execfailed", "postdone", "postfailed"}
ExecuteSucceeded == pc \in {"executed", "postdone", "postfailed"}
Pinned == isIterator /\ request.GuaranteeTimestamp > 0
Returned(s) == {a \in DOMAIN calls[s] : calls[s][a].outcome # "inflight"}
ReturnedWith(resps) ==
    {<<s, a>> \in Shards \X (1..lbMaxAttempts) :
        a \in DOMAIN calls[s] /\ calls[s][a].outcome \in resps}
ExecStep ==
    \/ \E s \in Shards : SearchShardCall(s)
    \/ \E s \in Shards, resp \in Responses : SearchShardReturn(s, resp)
    \/ ExecuteEnd

\* C1, as stated: after every successful PreExecute, whatever the consistency
\* flag, level, explicit timestamp and iterator flag, the stored guarantee
\* timestamp is at least max(T, U), T the timestamp resolved from the request,
\* U the schema update timestamp of the collection.
C1_GuaranteeTsAtLeastMax ==
    PreExecuted =>
        SearchRequest.GuaranteeTimestamp
            >= Max(guaranteeTs, collectionInfo.updateTimestamp)

\* C1, amended: the bound holds unless the request is an iterator page with a
\* caller-supplied guarantee timestamp G > 0; for such a page the stored
\* guarantee timestamp is G itself.
C1_GuaranteeTsAtLeastMaxUnlessPinned ==
    PreExecuted =>
        IF Pinned
        THEN SearchRequest.GuaranteeTimestamp = request.GuaranteeTimestamp
        ELSE SearchRequest.GuaranteeTimestamp
                 >= Max(guaranteeTs, collectionInfo.updateTimestamp)

C1_Witness ==
    /\ pc = "preexecuted"
    /\ ~Pinned
    /\ collectionInfo.updateTimestamp > guaranteeTs
    /\ SearchRequest.GuaranteeTimestamp = collectionInfo.updateTimestamp

\* C2: an advanced search passes PreExecute only if all its legs carry the
\* same nq, which is then the nq of the task; otherwise PreExecute fails and
\* no shard is contacted.
C2_LegsShareNqOrFail ==
    /\ (PreExecuted /\ SearchRequest.IsAdvanced) =>
           \A i \in DOMAIN request.SubReqs : request.SubReqs[i].Nq = SearchRequest.Nq
    /\ pc = "prefailed" => (err # NoErr /\ sent = {})

\* C3: every request searchShard sends for the task, to any shard and on any
\* retry, carries the guarantee timestamp PreExecute resolved, and the task's
\* own request is never modified by a call.
C3_OneGuaranteeTsForAllShards ==
    /\ \A m \in sent :
           /\ m.req.Req.GuaranteeTimestamp = SearchRequest.GuaranteeTimestamp
           /\ [m.req.Req EXCEPT !.TargetID = 0] = SearchRequest
    /\ \A m1, m2 \in sent :
           (m1.channel = m2.channel /\ m1.attempt <= m2.attempt) =>
               m1.req.Req.GuaranteeTimestamp <= m2.req.Req.GuaranteeTimestamp
    /\ SearchRequest.TargetID = 0

C3_Witness ==
    /\ \E m1, m2 \in sent : m1.channel = m2.channel /\ m1.attempt < m2.attempt
    /\ \E m1, m2 \in sent : m1.channel # m2.channel
    /\ SearchRequest.GuaranteeTimestamp > 0

\* C4: an answer "not shard leader" invalidates the routing cache exactly once
\* for that call, inserts no result and returns errInvalidShardLeaders, on
\* which the policy retries the shard, at most once; the task succeeds if the
\* retry succeeds and fails with a shard failure if it is stale again; Execute
\* never gets stuck.
C4_StaleLeaderRetriedOnce ==
    /\ \A s \in Shards :
           /\ Len(calls[s]) <= 2
           /\ Len(calls[s]) = 2 => calls[s][1].outcome = "NotShardLeader"
           /\ \A a \in DOMAIN calls[s] :
                  calls[s][a].outcome = "NotShardLeader" =>
                      /\ calls[s][a].deprecated = 1
                      /\ ~calls[s][a].inserted
                      /\ calls[s][a].err = Err("errInvalidShardLeaders")
           /\ (pc = "executing" /\ Len(calls[s]) = 1
                 /\ calls[s][1].outcome = "NotShardLeader") => ENABLED SearchShardCall(s)
           /\ (ExecuteReturned /\ Len(calls[s]) = 2
                 /\ calls[s][2].outcome = "NotShardLeader") =>
                 (pc = "execfailed" /\ err.kind = "ErrFailedToSearch")
    /\ shardCacheDeprecations = Cardinality(ReturnedWith({"NotShardLeader", "RpcError"}))
    /\ (ExecuteReturned /\ \A s \in Shards : lbLast(calls[s]).outcome = "Success") =>
           pc # "execfailed"
    /\ pc = "executing" => ENABLED ExecStep

C4_Witness ==
    /\ pc = "executed"
    /\ \E s \in Shards :
           /\ Len(calls[s]) = 2
           /\ calls[s][1].outcome = "NotShardLeader"
           /\ calls[s][2].outcome = "Success"
    /\ shardCacheDeprecations >= 1

\* C5: an RPC-level error of a shard call invalidates the routing cache,
\* inserts nothing, and makes Execute return an error wrapping a shard's
\* error: it is not dropped and Execute does not succeed.
C5_RpcErrorFailsTask ==
    /\ \A s \in Shards : \A a \in DOMAIN calls[s] :
           calls[s][a].outcome = "RpcError" =>
               /\ calls[s][a].deprecated = 1
               /\ ~calls[s][a].inserted
               /\ calls[s][a].err = Err("ErrRpc")
               /\ \A r \in resultBuf.items : r.node # calls[s][a].node
               /\ a = Len(calls[s])
    /\ shardCacheDeprecations >= Cardinality(ReturnedWith({"RpcError"}))
    /\ (ExecuteReturned /\ ReturnedWith({"RpcError"}) # {}) =>
           /\ pc = "execfailed"
           /\ err.kind = "ErrFailedToSearch"
           /\ err.cause \in {lbLast(calls[s]).err.kind : s \in {x \in Shards : lbShardFailed(calls[x])}}
           /\ (\A s \in Shards : lbShardFailed(calls[s]) => lbLast(calls[s]).outcome = "RpcError")
                 => err.cause = "ErrRpc"

C5_Witness ==
    /\ pc = "execfailed"
    /\ err = Wrap("ErrFailedToSearch", Err("ErrRpc"))
    /\ ReturnedWith({"RpcError"}) # {}
    /\ shardCacheDeprecations >= 1

\* C6: a partial result is inserted and its cost reported exactly for the calls
\* that returned no RPC error and a Success status; every entry of the result
\* set has Success status.
C6_InsertedIffSuccess ==
    /\ \A s \in Shards : \A a \in Returned(s) :
           /\ calls[s][a].inserted <=> calls[s][a].outcome = "Success"
           /\ calls[s][a].cost <=> calls[s][a].outcome = "Success"
    /\ resultBuf.items =
           {[channel |-> c[1], node |-> calls[c[1]][c[2]].node, status |-> "Success"] :
                c \in ReturnedWith({"Success"})}
    /\ costMetrics = {calls[c[1]][c[2]].node : c \in ReturnedWith({"Success"})}
    /\ \A r \in resultBuf.items : r.status = "Success"

C6_Witness ==
    /\ ReturnedWith({"Success"}) # {}
    /\ ReturnedWith({"UnexpectedError"}) # {}
    /\ resultBuf.items # {}
    /\ costMetrics # {}

\* C7: when Execute returns success, under every interleaving of the shard
\* calls and with retries, the result set holds exactly one partial result per
\* shard.
C7_OneResultPerShard ==
    ExecuteSucceeded =>
        /\ \A s \in Shards : Cardinality({r \in resultBuf.items : r.channel = s}) = 1
        /\ Cardinality(resultBuf.items) = NumShards

C7_Witness ==
    /\ pc = "executed"
    /\ \A s \in Shards : Len(calls[s]) = 2
    /\ Cardinality(resultBuf.items) = NumShards

\* C8: if the context is done when the results are collected, the collection
\* gives a timeout error and no list, PostExecute returns that error and runs
\* no reduction; PostExecute can always take its step.
C8_CancelledCollectionFails ==
    /\ (pc \in {"postdone", "postfailed"} /\ ctxDone) =>
           /\ pc = "postfailed"
           /\ err = Err("ErrTimeout")
           /\ toReduceResults = NilList
           /\ pipelineRuns = 0
           /\ result = NilResult
    /\ pc = "executed" => ENABLED PostExecute

C8_Witness ==
    /\ pc = "postfailed"
    /\ ctxDone
    /\ err = Err("ErrTimeout")
    /\ Cardinality(resultBuf.items) = NumShards

\* C9: whenever Execute or PostExecute returns an error, the task holds no
\* result: the partial results of the shards that succeeded are not exposed.
C9_NoResultOnError ==
    pc \in {"execfailed", "postfailed"} => (err # NoErr /\ result = NilResult)

C9_Witness ==
    /\ pc = "postfailed"
    /\ err = Err("ErrPipelineRun")
    /\ resultBuf.items # {}
    /\ result = NilResult

\* C10: after PostExecute, for plain and for advanced searches,
\* resultSizeInsufficient is true exactly if some query vector got fewer rows
\* than the request's top-k minus offset.
C10_InsufficientIffFewerRows ==
    pc = "postdone" =>
        (resultSizeInsufficient <=>
            \E i \in DOMAIN result.Topks :
                result.Topks[i] < userLimit(request, SearchRequest))

EmptyIteratorPage ==
    /\ pc = "postdone"
    /\ isIterator
    /\ SumSeq(result.Topks, 1) = 0
    /\ ~result.SearchIteratorV2Results.isNil

\* the extreme score of the request's metric
ExtremeScore ==
    IF PositivelyRelated(request.SearchParams.metric) THEN MaxFloat32 ELSE 0 - MaxFloat32

\* C12, as stated: for an iterator call whose page returns zero rows, the
\* emitted last bound is the extreme representable score: the maximum float32
\* for a positively related metric, the most negative one otherwise.
C12_EmptyPageExtremeBound ==
    EmptyIteratorPage => result.SearchIteratorV2Results.value = ExtremeScore

\* C12, amended: for an iterator call whose page returns zero rows, the
\* emitted last bound is the last bound the request carries, if it carries
\* one, and the extreme score of the metric otherwise.
C12_EmptyPageIncomingOrExtremeBound ==
    EmptyIteratorPage =>
        result.SearchIteratorV2Results.value =
            IF queryInfos[1].SearchIteratorV2Info.LastBound.isNil THEN ExtremeScore
            ELSE queryInfos[1].SearchIteratorV2Info.LastBound.value

C12_Witness ==
    /\ EmptyIteratorPage
    /\ queryInfos[1].SearchIteratorV2Info.LastBound.isNil
    /\ PositivelyRelated(request.SearchParams.metric)
    /\ result.SearchIteratorV2Results.value = MaxFloat32

\* the partial results PostExecute collected, and what their senders reported
Collected == {shardAnswers[r.channel] : r \in resultBuf.items}
ReportedChannels == UNION {DOMAIN a.ChannelsMvcc : a \in Collected}
ReportedWatermarks(ch) ==
    {a.ChannelsMvcc[ch] : a \in {x \in Collected : ch \in DOMAIN x.ChannelsMvcc}}
SetMax(S) == CHOOSE m \in S : \A x \in S : x <= m
RECURSIVE RelatedDataSizeOf(_)
RelatedDataSizeOf(channels) ==
    IF channels = {} THEN 0
    ELSE LET c == CHOOSE x \in channels : TRUE
         IN  shardAnswers[c].TotalRelatedDataSize + RelatedDataSizeOf(channels \ {c})
\* PostExecute has collected the results and done its bookkeeping
BookkeepingDone == pc \in {"postdone", "postfailed"} /\ ~toReduceResults.isNil

\* C13: the response carries a session timestamp exactly if the request is an
\* iterator call without a caller-supplied guarantee timestamp (the first
\* page), and its value is at least the largest MVCC watermark that the
\* partial results reported for any channel.
C13_SessionTsFromMaxWatermark ==
    pc = "postdone" =>
        /\ result.SessionTs # 0 <=> (isIterator /\ request.GuaranteeTimestamp = 0)
        /\ result.SessionTs # 0 =>
               \A ch \in ReportedChannels : \A ts \in ReportedWatermarks(ch) :
                   result.SessionTs >= ts

\* C14: after the bookkeeping of PostExecute, the watermark recorded for a
\* channel is the largest one any partial result reported for it, the two
\* flags are the OR over the partial results, and relatedDataSize is the sum
\* of their related-data sizes.
C14_BookkeepingAggregates ==
    BookkeepingDone =>
        /\ DOMAIN queryChannelsTs = ReportedChannels
        /\ \A ch \in ReportedChannels :
               queryChannelsTs[ch] = SetMax(ReportedWatermarks(ch))
        /\ isTopkReduce <=> \E a \in Collected : a.IsTopkReduce
        /\ isRecallEvaluation <=> \E a \in Collected : a.IsRecallEvaluation
        /\ relatedDataSize = RelatedDataSizeOf({r.channel : r \in resultBuf.items})

\* C15: whatever the order in which the partial results are handed over,
\* PostExecute computes the same flags, related-data size, per-channel
\* watermarks and session timestamp.
C15_OrderIndependent ==
    BookkeepingDone =>
        \A list \in Orderings(toReduceResults.items) :
            LET book == bookkeeping(list, 1, shardAnswers, NoBookkeeping)
            IN  /\ book.queryChannelsTs = queryChannelsTs
                /\ book.relatedDataSize = relatedDataSize
                /\ book.isTopkReduce = isTopkReduce
                /\ book.isRecallEvaluation = isRecallEvaluation
                /\ (pc = "postdone" /\ result.SessionTs # 0) =>
                       result.SessionTs =
                           getMaxMvccTsFromChannels(book.queryChannelsTs, BeginTs)

\* C16: a second run of PostExecute over the unmodified partial results leaves
\* what the first run left: the same bookkeeping (not accumulated twice), the
\* same rows, the same output-field list and field data.
C16_RerunIdentical ==
    ~firstRun.isNil => firstRun = outputOfRun

\* PreExecute has returned
PreExecuteReturned == pc # "created"
\* the filters of the request: its own, or those of its legs
RequestFilters ==
    IF Len(request.SubReqs) > 0
    THEN {request.SubReqs[i].Filter : i \in DOMAIN request.SubReqs}
    ELSE {request.Filter}
\* materialized views with partition-key isolation are in force for the task
IsolationInForce ==
    /\ collectionInfo.partitionKeyMode
    /\ enableMaterializedView
    /\ collectionInfo.partitionKeyIsolation

\* C17: with partition-key isolation enabled for materialized views, a filter
\* that does not pin the partition key to one value makes PreExecute fail
\* before any shard is called; when the check passes, every query info of the
\* task has the hint "disable" and is marked materialized-view involved.
C17_IsolationRejectsNonEquality ==
    /\ (PreExecuteReturned /\ IsolationInForce /\ RequestFilters # {"pkEq"}) =>
           (pc = "prefailed" /\ err # NoErr /\ sent = {})
    /\ (PreExecuted /\ IsolationInForce) =>
           /\ queryInfos # <<>>
           /\ \A i \in DOMAIN queryInfos :
                  /\ queryInfos[i].Hints = "disable"
                  /\ queryInfos[i].MaterializedViewInvolved

\* C18: in partition-key mode a request that names partitions is rejected by
\* PreExecute before anything of the shard request is composed; outside
\* partition-key mode the named partitions become the partition IDs of the
\* task, and names are resolved in no other case.
C18_NamesRejectedInKeyMode ==
    /\ (PreExecuteReturned /\ collectionInfo.partitionKeyMode
            /\ request.PartitionNames # {}) =>
           /\ pc = "prefailed"
           /\ err = Err("ErrPartitionNamesInKeyMode")
           /\ sent = {}
           /\ SearchRequest.PartitionIDs = {}
           /\ SearchRequest.Nq = 0
           /\ queryInfos = <<>>
    /\ (PreExecuted /\ ~collectionInfo.partitionKeyMode) =>
           SearchRequest.PartitionIDs = getPartitionIDs(request.PartitionNames)
    /\ (PreExecuted /\ collectionInfo.partitionKeyMode) =>
           /\ request.PartitionNames = {}
           /\ SearchRequest.PartitionIDs =
                  getPartitionIDs(UNION {ParseKeys(f) : f \in RequestFilters})

C18_Witness ==
    /\ pc = "prefailed"
    /\ collectionInfo.partitionKeyMode
    /\ request.PartitionNames # {}
    /\ err = Err("ErrPartitionNamesInKeyMode")

\* C19: on a collection that enforces "must use partition key", PreExecute
\* rejects every request without a partition-key predicate in its filter,
\* with an input error.
C19_MustUsePartitionKeyRejects ==
    (PreExecuteReturned /\ mustUsePartitionKey /\ "none" \in RequestFilters) =>
        (pc = "prefailed" /\ err \in {Err("ErrMustUsePartitionKey"),
                                       Err("ErrPartitionNamesInKeyMode")})

\* the output fields the request names
RequestedOutputFields == {request.OutputFields[i] : i \in DOMAIN request.OutputFields}

\* C20, as stated: for every composed request, plain or advanced, needRequery
\* is true whenever the request names output fields or the fusion function
\* declares input fields.
C20_RequeryWheneverOutputFields ==
    PreExecuted =>
        ((RequestedOutputFields # {} \/ request.FunctionInputs # {}) => needRequery)

\* C20, amended: for an advanced request needRequery is true whenever the
\* request names output fields or the fusion function declares input fields;
\* for a plain request it is true exactly if a vector field is among the
\* output fields.
C20_RequeryAdvancedOrVectorField ==
    PreExecuted =>
        IF SearchRequest.IsAdvanced
        THEN (RequestedOutputFields # {} \/ request.FunctionInputs # {}) => needRequery
        ELSE needRequery <=> "vector" \in RequestedOutputFields

C20_Witness ==
    /\ pc = "preexecuted"
    /\ SearchRequest.IsAdvanced
    /\ RequestedOutputFields = {"scalar"}
    /\ request.FunctionInputs = {}
    /\ needRequery

\* the searchShard calls that were answered with a failure status other than
\* NotShardLeader
StatusFailures == ReturnedWith({"UnexpectedError"})

\* C30: a shard that answers without RPC error but with a status that is
\* neither Success nor NotShardLeader makes searchShard return an error that
\* wraps the status; no result is inserted, no cost metrics are reported and
\* the routing cache is not invalidated: it is invalidated once per RPC error
\* and per NotShardLeader answer, and for nothing else.
C30_FailureStatusKeepsCache ==
    /\ \A s \in Shards : \A a \in DOMAIN calls[s] :
           calls[s][a].outcome = "UnexpectedError" =>
               /\ calls[s][a].err = Wrap("ErrSearchOnQueryNode", Err("ErrStatus"))
               /\ ~calls[s][a].inserted
               /\ ~calls[s][a].cost
               /\ calls[s][a].deprecated = 0
               /\ calls[s][a].node \notin costMetrics
               /\ \A r \in resultBuf.items : r.node # calls[s][a].node
    /\ shardCacheDeprecations = Cardinality(ReturnedWith({"RpcError", "NotShardLeader"}))

C30_Witness ==
    /\ pc = "execfailed"
    /\ StatusFailures # {}
    /\ ReturnedWith({"RpcError", "NotShardLeader"}) = {}
    /\ shardCacheDeprecations = 0
    /\ \E s \in Shards : lbLast(calls[s]).outcome = "Success"

\* C29: for an iterator request that carries a guarantee timestamp G > 0, the
\* MVCC timestamp and the guarantee timestamp of the task, and of every
\* request sent to a shard, equal G, and the response carries no session
\* timestamp.
C29_IteratorPageReadsAtG ==
    (PreExecuted /\ Pinned) =>
        /\ SearchRequest.MvccTimestamp = request.GuaranteeTimestamp
        /\ SearchRequest.GuaranteeTimestamp = request.GuaranteeTimestamp
        /\ \A m \in sent :
               /\ m.req.Req.MvccTimestamp = request.GuaranteeTimestamp
               /\ m.req.Req.GuaranteeTimestamp = request.GuaranteeTimestamp
        /\ pc = "postdone" => result.SessionTs = 0

C29_Witness ==
    /\ pc = "postdone"
    /\ Pinned
    /\ {m.channel : m \in sent} = Shards
    /\ \E c \in DOMAIN queryChannelsTs : queryChannelsTs[c] > request.GuaranteeTimestamp
    /\ result.SessionTs = 0

\* the worst of the scores of a page: the lowest for a positively related
\* metric, the highest otherwise
WorstScore(scores, positive) ==
    CHOOSE w \in {scores[i] : i \in DOMAIN scores} :
        \A i \in DOMAIN scores : IF positive THEN w <= scores[i] ELSE w >= scores[i]

\* the bound the no-rows rule gives: the incoming bound, else the extreme
\* score of the metric
NoRowsBound ==
    IF queryInfos[1].SearchIteratorV2Info.LastBound.isNil THEN ExtremeScore
    ELSE queryInfos[1].SearchIteratorV2Info.LastBound.value

\* C27: for an iterator page with one query vector and at least one row, the
\* emitted last bound is the score of the last ranked row, which is the worst
\* score of the page; with several query vectors the scores are ignored and
\* the bound is the one of a page without rows.
C27_LastBoundIsWorstScore ==
    (pc = "postdone" /\ ~result.SearchIteratorV2Results.isNil) =>
        /\ (SearchRequest.Nq = 1 /\ Len(result.Scores) > 0) =>
               /\ result.SearchIteratorV2Results.value = result.Scores[Len(result.Scores)]
               /\ result.SearchIteratorV2Results.value =
                      WorstScore(result.Scores,
                                 PositivelyRelated(request.SearchParams.metric))
        /\ SearchRequest.Nq > 1 => result.SearchIteratorV2Results.value = NoRowsBound

C27_Witness ==
    /\ pc = "postdone"
    /\ ~result.SearchIteratorV2Results.isNil
    /\ SearchRequest.Nq = 1
    /\ request.SearchParams.metric = "L2"
    /\ Len(result.Scores) = 2
    /\ result.Scores[1] < result.Scores[2]
    /\ result.SearchIteratorV2Results.value = result.Scores[2]
    /\ ~queryInfos[1].SearchIteratorV2Info.LastBound.isNil

\* C28: across the pages of an iterator, a page without rows whose request
\* carries the last bound of the page before emits that bound unchanged; the
\* extreme score of the metric is emitted only by an empty first page, whose
\* request carries no bound.
C28_EmptyPageKeepsBound ==
    (pc = "postdone" /\ ~result.SearchIteratorV2Results.isNil
        /\ SumSeq(result.Topks, 1) = 0) =>
        IF previousPages = <<>>
        THEN result.SearchIteratorV2Results.value = ExtremeScore
        ELSE result.SearchIteratorV2Results = previousPages[Len(previousPages)]

C28_Witness ==
    /\ pc = "postdone"
    /\ Len(previousPages) = 1
    /\ previousPages[1].value \in Scores
    /\ SumSeq(result.Topks, 1) = 0
    /\ result.SearchIteratorV2Results = previousPages[1]

\* the output fields of the request without the primary key
RequestedWithoutPk == SelectSeq(request.OutputFields, LAMBDA f : f # "primary")

\* the row IDs of the result, of the primary key's type
RowIDs == IF collectionInfo.pkType = "Int64" THEN result.Ids.IntId ELSE result.Ids.StrId

\* the positions of the primary key in a list of field names or of columns
PkPositions(names) == {i \in DOMAIN names : names[i] = "primary"}

\* C24: the response's output-field list is the user's output fields without
\* the primary key, unless the caller requested the primary key: then its name
\* is appended exactly once and one primary-key column is added, whose values
\* are the row IDs of the result, in their order and of their number.
C24_PrimaryKeyColumn ==
    pc = "postdone" =>
        LET names == [i \in DOMAIN result.FieldsData |-> result.FieldsData[i].FieldName]
        IN  IF "primary" \in RequestedOutputFields
            THEN /\ result.OutputFields = Append(RequestedWithoutPk, "primary")
                 /\ PkPositions(result.OutputFields) = {Len(result.OutputFields)}
                 /\ PkPositions(names) = {Len(names)}
                 /\ result.FieldsData[Len(names)].Scalars = RowIDs
                 /\ Len(result.FieldsData[Len(names)].Scalars) = SumSeq(result.Topks, 1)
            ELSE /\ result.OutputFields = request.OutputFields
                 /\ PkPositions(result.OutputFields) = {}
                 /\ PkPositions(names) = {}

C24_Witness ==
    /\ pc = "postdone"
    /\ request.OutputFields = <<"scalar", "primary">>
    /\ collectionInfo.pkType = "VarChar"
    /\ result.Ids.StrId = <<<<"key", 2>>, <<"key", 1>>>>
    /\ result.FieldsData[2].Scalars = result.Ids.StrId

\* the output fields the plans of a request name: those of the plan of a
\* plain search, those of the plans of the legs of an advanced one
PlanOutputFields(sr) ==
    IF sr.IsAdvanced
    THEN UNION {sr.SubReqs[i].SerializedExprPlan.OutputFieldIds : i \in DOMAIN sr.SubReqs}
    ELSE sr.SerializedExprPlan.OutputFieldIds

PassedToTtl ==
    /\ pc # "created"
    /\ pc = "prefailed" => err = Err("ErrTtlTimestampOverflow")

\* C22: with a non-zero TTL PreExecute either fails because the expiry cutoff
\* it computed exceeds the begin timestamp, which a TTL longer than the begin
\* time (by unsigned wrap-around) and a negative TTL both bring about, or it
\* succeeds with CollectionTtlTimestamps <= begin timestamp; with TTL zero no
\* cutoff is computed and the check does not fail.
C22_TtlCutoffNotAfterBegin ==
    PassedToTtl =>
        IF collectionInfo.collectionTTL # 0
        THEN /\ IF pc = "prefailed"
                THEN SearchRequest.CollectionTtlTimestamps > SearchRequest.Timestamp
                ELSE SearchRequest.CollectionTtlTimestamps <= SearchRequest.Timestamp
             /\ (collectionInfo.collectionTTL > PhysicalTime(SearchRequest.Timestamp)
                   \/ collectionInfo.collectionTTL < 0) => pc = "prefailed"
             /\ pc # "prefailed" =>
                    SearchRequest.CollectionTtlTimestamps =
                        PhysicalTime(SearchRequest.Timestamp) - collectionInfo.collectionTTL
        ELSE /\ pc # "prefailed"
             /\ SearchRequest.CollectionTtlTimestamps = 0

C22_Witness ==
    /\ pc = "prefailed"
    /\ err = Err("ErrTtlTimestampOverflow")
    /\ collectionInfo.collectionTTL > PhysicalTime(SearchRequest.Timestamp)
    /\ SearchRequest.CollectionTtlTimestamps = 2 ^ TimestampBits - 1
    /\ resultBuf.isNil

\* the legacy rule: Strong with an explicit guarantee timestamp, not under the
\* collection's default
LegacyStrongWithTimestamp ==
    /\ ~request.UseDefaultConsistency
    /\ request.ConsistencyLevel = "Strong"
    /\ request.GuaranteeTimestamp > 0

\* the collection's default is asked for and the collection cannot be resolved
CollectionUnresolved == request.UseDefaultConsistency /\ collectionInfo.infoErrOnEnqueue

\* the level of the request: the requested one, or the collection's default
LevelOfRequest ==
    IF request.UseDefaultConsistency THEN collectionInfo.consistencyLevel
    ELSE request.ConsistencyLevel

\* C23: CanSkipAllocTimestamp returns true exactly if the legacy rule applies
\* or the level it resolves (the requested one, or the collection's default
\* under use-default) is not Strong; it returns false when the collection
\* cannot be resolved; and the level it resolves is the level PreExecute
\* stores in the task.
C23_SkipAllocExactlyWhenNotStrong ==
    ~skipAllocTimestamp.isNil =>
        /\ skipAllocTimestamp.skip <=>
               \/ LegacyStrongWithTimestamp
               \/ ~CollectionUnresolved /\ LevelOfRequest # "Strong"
        /\ CollectionUnresolved => ~skipAllocTimestamp.skip
        /\ skipAllocTimestamp.resolved <=>
               (~LegacyStrongWithTimestamp /\ ~CollectionUnresolved)
        /\ PreExecuted =>
               /\ skipAllocTimestamp.resolved =>
                      skipAllocTimestamp.consistencyLevel = SearchRequest.ConsistencyLevel
               /\ LegacyStrongWithTimestamp => SearchRequest.ConsistencyLevel = "Strong"
               /\ (skipAllocTimestamp.skip /\ ~LegacyStrongWithTimestamp) =>
                      SearchRequest.ConsistencyLevel # "Strong"

C23_Witness ==
    /\ pc = "preexecuted"
    /\ request.UseDefaultConsistency
    /\ request.ConsistencyLevel = "Strong"
    /\ collectionInfo.consistencyLevel = "Bounded"
    /\ skipAllocTimestamp.skip
    /\ skipAllocTimestamp.consistencyLevel = "Bounded"
    /\ SearchRequest.ConsistencyLevel = "Bounded"

\* C25: a call of Handle never waits with a cancelled context, since every
\* select of the handlers has a case for the cancellation; a call that waits
\* to send downstream or to receive from upstream when the context is
\* cancelled returns, with Error set to the context's error and without an
\* incoming message; and a call whose context is cancelled does not stay in
\* its select for ever.
C25_CancelledWaitReturnsError ==
    /\ [](hpc = "waiting" => ~paramCtxDone)
    /\ [][(hpc = "waiting" /\ paramCtxDone') =>
              /\ hpc' = "returned"
              /\ handleResult'.Error = CtxErr
              /\ ~handleResult'.Incoming
              /\ handleResult'.MessageHandled = messageHandled]_vars
    /\ ((hpc \in {"select", "waiting"} /\ paramCtxDone) ~> (hpc = "returned"))

C25_Witness ==
    /\ handler = "MsgPackAdaptorHandler"
    /\ hpc = "returned"
    /\ resolution.woken
    /\ paramCtxDone
    /\ Len(base.PendingMsgPack) > 0
    /\ handleResult = HandleResult(FALSE, TRUE, CtxErr)

\* C26: whenever the context is already cancelled when a select of Handle is
\* evaluated, the call returns the cancellation error, also if a downstream
\* send or an upstream receive can proceed at the same moment.
C26_CancellationAlwaysWins ==
    (hpc = "returned" /\ ~resolution.isNil /\ resolution.doneAtEvaluation) =>
        handleResult.Error = CtxErr

\* materialized views are in force for the task's plans
MvInForce == collectionInfo.partitionKeyMode /\ enableMaterializedView
\* a lookup setQueryInfoIfMvEnable depends on fails for the task
MvLookupFails ==
    \/ collectionInfo.pkSchemaErr
    \/ ~collectionInfo.pkSupportsMv
    \/ collectionInfo.infoErrInMv
    \/ collectionInfo.partitionKeyIsolation /\ RequestFilters # {"pkEq"}

\* C31: with materialized views enabled, every failure of a lookup of
\* setQueryInfoIfMvEnable (partition-key field schema, type support,
\* collection info, isolation validation) makes it return an error, so
\* PreExecute fails; when it returns nil the query info is marked
\* materialized-view involved.
C31_MvLookupFailuresReturned ==
    /\ (PreExecuteReturned /\ MvInForce /\ MvLookupFails) =>
           (pc = "prefailed" /\ err # NoErr)
    /\ (PreExecuted /\ MvInForce) =>
           /\ queryInfos # <<>>
           /\ \A i \in DOMAIN queryInfos : queryInfos[i].MaterializedViewInvolved

\* a step that is a call of MsgPackAdaptorHandler.Handle
AdaptorHandleCalled ==
    handler = "MsgPackAdaptorHandler" /\ handleCalls' = handleCalls + 1

\* C32: MsgPackAdaptorHandler.Handle takes in the message of the call exactly
\* when one is supplied and no message pack is pending on entry; a call that
\* does not take its message in leaves Pendings and the pending packs as they
\* were, and the result of the call reports MessageHandled exactly when the
\* message was taken in.
C32_NoAbsorbWhilePending ==
    /\ [][AdaptorHandleCalled =>
              /\ messageHandled' =
                     (param'.Message # NoMessage /\ Len(base.PendingMsgPack) = 0)
              /\ ~messageHandled' => base' = base]_vars
    /\ []((handler = "MsgPackAdaptorHandler" /\ hpc = "returned") =>
              handleResult.MessageHandled = messageHandled)
C32_Witness ==
    /\ handler = "MsgPackAdaptorHandler"
    /\ hpc = "returned"
    /\ param.Message # NoMessage
    /\ Len(base.PendingMsgPack) > 0
    /\ ~handleResult.MessageHandled
    /\ handleResult.Incoming
    /\ Len(channel) > 0

\* a step in which MsgPackAdaptorHandler.Handle calls GenerateMsgPack with
\* the message of the call
GenerateMsgPackCalled == AdaptorHandleCalled /\ messageHandled'
\* the message IDs of a list of messages, and those of a pack
IDsOf(msgs) == {msgs[i].MessageID : i \in DOMAIN msgs}
PackIDs(pack) == {pack.Msgs[i] : i \in DOMAIN pack.Msgs}
\* pack holds exactly the messages msgs, which share the time tick
PacksTogether(pack, msgs) ==
    /\ PackIDs(pack) = IDsOf(msgs)
    /\ pack.BeginTs = msgs[1].TimeTick
    /\ pack.EndTs = msgs[1].TimeTick
\* the packs GenerateMsgPack has added in a step
AddedPacks ==
    SubSeq(base'.PendingMsgPack, Len(base.PendingMsgPack) + 1,
           Len(base'.PendingMsgPack))
KeepsPacks ==
    /\ Len(base'.PendingMsgPack) >= Len(base.PendingMsgPack)
    /\ SubSeq(base'.PendingMsgPack, 1, Len(base.PendingMsgPack)) = base.PendingMsgPack

BuiltPacks ==
    IF handler = "MsgPackAdaptorHandler" THEN channel \o base.PendingMsgPack ELSE <<>>
\* the position at which an ID occurs first in a list of IDs
FirstIndex(ids, id) ==
    CHOOSE i \in DOMAIN ids : ids[i] = id /\ \A j \in 1..(i - 1) : ids[j] # id
\* pack holds each ID of msgs once, in the order of the first occurrences
FirstOccurrencesInOrder(pack, msgs) ==
    LET ids == [i \in DOMAIN msgs |-> msgs[i].MessageID]
    IN  /\ PackIDs(pack) = IDsOf(msgs)
        /\ \A i, j \in DOMAIN pack.Msgs :
               /\ (i # j) => pack.Msgs[i] # pack.Msgs[j]
               /\ (i < j) => FirstIndex(ids, pack.Msgs[i]) < FirstIndex(ids, pack.Msgs[j])
\* a step in which m.Pendings is packed
PendingsPacked ==
    /\ GenerateMsgPackCalled
    /\ Len(base.Pendings) # 0
    /\ Len(AddedPacks) > 0
    /\ flushed' = base.Pendings

IsPrefix(a, b) == Len(a) <= Len(b) /\ SubSeq(b, 1, Len(a)) = a
\* the time ticks of the packs built and of the messages collected do not
\* decrease
TimeTicksInOrder ==
    /\ \A k \in DOMAIN BuiltPacks :
           /\ BuiltPacks[k].BeginTs <= BuiltPacks[k].EndTs
           /\ k > 1 => BuiltPacks[k - 1].EndTs <= BuiltPacks[k].BeginTs
    /\ \A i \in DOMAIN base.Pendings :
           /\ i > 1 => base.Pendings[i - 1].TimeTick <= base.Pendings[i].TimeTick
           /\ Len(BuiltPacks) # 0 =>
                  BuiltPacks[Len(BuiltPacks)].EndTs <= base.Pendings[i].TimeTick

\* C35: the packs are sent on the channel of MsgPackAdaptorHandler in the
\* order in which they were built, each once: the packs sent followed by the
\* packs pending only ever grow at the end, and a step that sends moves the
\* first pending pack, and nothing else, to the channel. While the messages
\* taken in do not go back in time tick, the time ticks of the packs built
\* do not decrease.
C35_PacksSentInOrder ==
    /\ [][handler = "MsgPackAdaptorHandler" =>
              /\ IsPrefix(BuiltPacks, BuiltPacks')
              /\ IsPrefix(channel, channel')
              /\ Len(channel') <= Len(channel) + 1]_vars
    /\ [][(handler = "MsgPackAdaptorHandler" /\ TimeTicksInOrder
               /\ (GenerateMsgPackCalled => param'.Message.TimeTick >= lastTimeTick)) =>
              TimeTicksInOrder']_vars
C35_Witness ==
    /\ handler = "MsgPackAdaptorHandler"
    /\ Len(channel) = 2
    /\ channel[1].EndTs < channel[2].BeginTs
    /\ Len(base.PendingMsgPack) = 1
    /\ hpc = "returned"

\* the IDs of the messages the adaptor holds or has sent: those collected in
\* Pendings and those of the packs pending and sent
HeldIDs ==
    IDsOf(base.Pendings)
    \cup UNION {PackIDs(BuiltPacks[k]) : k \in DOMAIN BuiltPacks}
\* GenerateMsgPack drops msg: an old-version message of a lower time tick
\* than the messages collected
Discards(msg) ==
    /\ msg.Version = "VersionOld"
    /\ Len(base.Pendings) # 0
    /\ msg.TimeTick < base.Pendings[1].TimeTick

HandleReturned == hpc # "returned" /\ hpc' = "returned"

\* C37: a call of ChanMessageHandler.Handle ends with exactly one of the
\* context's error, an incoming upstream message, and MessageHandled; it
\* reports MessageHandled exactly when the step that ends it delivers the
\* message of the call on the channel, nothing else is ever delivered, and
\* a call without a message delivers nothing.
C37_ChanHandleOneOutcome ==
    /\ []((handler = "ChanMessageHandler" /\ hpc = "returned") =>
              handleResult \in {HandleResult(FALSE, FALSE, CtxErr),
                                HandleResult(TRUE, FALSE, NoErr),
                                HandleResult(FALSE, TRUE, NoErr)})
    /\ [][handler = "ChanMessageHandler" =>
              /\ (channel' # channel) = (HandleReturned /\ handleResult'.MessageHandled)
              /\ (channel' # channel) =>
                     /\ param.Message # NoMessage
                     /\ channel' = Append(channel, param.Message)]_vars
C37_Witness ==
    /\ handler = "ChanMessageHandler"
    /\ hpc = "returned"
    /\ handleResult = HandleResult(FALSE, TRUE, NoErr)
    /\ channel = <<param.Message, param.Message>>
    /\ paramCtxDone

\* the elements of the lists of a list, in order
RECURSIVE Flatten(_)
Flatten(lists) == IF lists = <<>> THEN <<>> ELSE Head(lists) \o Flatten(Tail(lists))
\* the slice names of the last AddBinarySet call in iteration order, and the
\* size of the slice of a name
SliceNamesOfCall ==
    [i \in DOMAIN fileCall.binary_set |-> SliceName(fileCall.prefix, i)]
SizeOfSlice(name) == fileCall.binary_set[name[2]]
\* the accumulated size of a batch of slice names
BatchSize(batch) == SumSeq([i \in DOMAIN batch |-> SizeOfSlice(batch[i])], 1)

\* C38: AddBinarySet uploads every slice of the binary set once, in
\* iteration order; no upload is empty; a batch is uploaded in the loop
\* exactly when its size has reached the memory limit, so every batch was
\* below the limit before its last slice and only the last batch may end
\* below it; added_total_mem_size_ grows by the sum of the slice sizes, and
\* remote_paths_to_size_ has the remote path and the size of every slice.
C38_AddBinarySetUploadsEachSliceOnce ==
    fileCall.fn = "AddBinarySet" =>
        /\ fileCall.returned
        /\ Flatten(rcm) = SliceNamesOfCall
        /\ \A b \in DOMAIN rcm :
               /\ Len(rcm[b]) > 0
               /\ BatchSize(SubSeq(rcm[b], 1, Len(rcm[b]) - 1))
                      < DEFAULT_FIELD_MAX_MEMORY_LIMIT
               /\ b < Len(rcm) => BatchSize(rcm[b]) >= DEFAULT_FIELD_MAX_MEMORY_LIMIT
        /\ added_total_mem_size_ =
               fileCall.added_before + SumSeq(fileCall.binary_set, 1)
        /\ \A i \in DOMAIN SliceNamesOfCall :
               /\ SliceNamesOfCall[i] \in DOMAIN remote_paths_to_size_
               /\ remote_paths_to_size_[SliceNamesOfCall[i]] = fileCall.binary_set[i]
C38_Witness ==
    /\ fileCall.fn = "AddBinarySet"
    /\ fileCall.binary_set = <<1, 1, 1>>
    /\ Len(rcm) = 2
    /\ Len(rcm[1]) = 2
    /\ added_total_mem_size_ = 3
    /\ Cardinality(DOMAIN remote_paths_to_size_) = 3

\* the base names of the remote files of the last LoadIndexToMemory call:
\* what follows the last '/' of a path
BaseNamesOfCall ==
    [i \in DOMAIN fileCall.remote_files |->
        fileCall.remote_files[i][Len(fileCall.remote_files[i])]]
\* no two of the requested files have the same base name
DistinctBaseNames ==
    \A i, j \in DOMAIN BaseNamesOfCall :
        (i # j) => BaseNamesOfCall[i] # BaseNamesOfCall[j]
\* every requested file is fetched once, in batches of at most
\* parallel_degree files
FetchedOnceInBatches ==
    /\ Flatten(rcm) = fileCall.remote_files
    /\ \A b \in DOMAIN rcm : Len(rcm[b]) > 0 /\ Len(rcm[b]) <= parallel_degree

====
